---- MODULE Spec2Model ----
(***************************************************************************)
(* A model of pycornetto: the construction of the lexical relation graph   *)
(* (lib/cornetto/parse.py) and the queries of the Cornet class             *)
(* (lib/cornetto/cornet.py).                                               *)
(*                                                                         *)
(* A lexical unit (an ElementTree Element in the code) is identified by    *)
(* its c_lu_id; its attributes are kept in c_lu_id2lu.  A text (a unit     *)
(* specification, a relation specification) is a sequence of tokens, a     *)
(* token being a separator or digit character or a maximal run of other    *)
(* characters.  Python's None is the string "None".                        *)
(***************************************************************************)
EXTENDS Integers, Sequences, FiniteSets, TLC

VARIABLES
    form2lu,        \* Cornet._form2lu: form -> list of units, insertion order
    c_lu_id2lu,     \* Cornet._c_lu_id2lu: c_lu_id -> the cdb_lu element
    graph,          \* Cornet._graph: [nodes, edges], edges in insertion order
    c_sy_id2synset, \* Cornet._c_sy_id2synset: synset id -> the synset element
    _max_depth,     \* Cornet._max_depth
    parse,          \* local variables of parse_cdb
    call,           \* the public method being executed and its arguments
    pc,             \* position inside the method
    loc,            \* local variables of the method
    bsp,            \* local variables of _bidirectional_shortest_path
    tc,             \* local variables of _transitive_closure
    ret             \* the value returned (or the exception raised)

vars == <<form2lu, c_lu_id2lu, graph, c_sy_id2synset, _max_depth, parse,
          call, pc, loc, bsp, tc, ret>>

\* the fields of the Cornet object and what parse_cdb left behind
db == <<form2lu, c_lu_id2lu, graph, c_sy_id2synset, _max_depth, parse>>

_default_max_depth == 9

None == "None"

\* bounds of the model
MaxEdges == 3
MaxDepth == 2

-----------------------------------------------------------------------------
(* Generic helpers *)

RECURSIVE Perms(_)
Perms(S) ==
    IF S = {} THEN {<<>>}
    ELSE UNION {{<<e>> \o p : p \in Perms(S \ {e})} : e \in S}

Range(s) == {s[i] : i \in DOMAIN s}

RECURSIVE SubsetsUpTo(_, _)
SubsetsUpTo(S, k) ==
    IF k = 0 THEN {{}}
    ELSE LET T == SubsetsUpTo(S, k - 1)
         IN  T \cup {t \cup {e} : t \in T, e \in S}

-----------------------------------------------------------------------------
(* The lexical units of the database and parse.py's first pass *)

\* str.lower() on the category spellings that occur
Lower(s) ==
    CASE s = "NOUN" -> "noun"
      [] s = "VERB" -> "verb"
      [] s = "ADJECTIVE" -> "adjective"
      [] s = "ADVERB" -> "adverb"
      [] OTHER -> s

\* the cdb_lu elements of the input, in document order; "" is an absent attribute;
\* c_sy_id is the list of synset ids joined by "," (<<>>: no such attribute)
LexUnitRecords ==
    << [c_lu_id |-> "u1", form |-> "a", cat |-> "noun", sense |-> "1", c_sy_id |-> <<>>],
       [c_lu_id |-> "u2", form |-> "a", cat |-> "noun", sense |-> "2", c_sy_id |-> <<>>],
       [c_lu_id |-> "u3", form |-> "b", cat |-> "noun", sense |-> "1", c_sy_id |-> <<>>],
       [c_lu_id |-> "u4", form |-> "c", cat |-> "verb", sense |-> "1", c_sy_id |-> <<>>] >>

EmptyGraph == [nodes |-> {}, edges |-> <<>>]

\* the loop body with a bucket that holds the last unit of a form only
ParseLexUnit_LastOfForm(st, elem, verbose) ==
    [ graph      |-> [st.graph EXCEPT !.nodes = @ \cup {elem.c_lu_id}],
      c_lu_id2lu |-> (elem.c_lu_id :> elem) @@ st.c_lu_id2lu,
      form2lu    |-> IF elem.form # ""
                     THEN (elem.form :> <<elem.c_lu_id>>) @@ st.form2lu
                     ELSE st.form2lu ]

\* one iteration of the loop of _parse_lex_units on a cdb_lu element
ParseLexUnit(st, elem, verbose) ==
    LET newcat0 == Lower(elem.cat)
        newcat  == IF newcat0 = "adjective" THEN "adj"
                   ELSE IF newcat0 = "adverb" THEN "adv" ELSE newcat0
        stored  == IF elem.form # "" /\ newcat # elem.cat /\ verbose
                   THEN [elem EXCEPT !.cat = newcat] ELSE elem
        bucket  == IF elem.form \in DOMAIN st.form2lu
                   THEN st.form2lu[elem.form] ELSE <<>>
    IN  [ graph      |-> [st.graph EXCEPT !.nodes = @ \cup {elem.c_lu_id}],
          c_lu_id2lu |-> (elem.c_lu_id :> stored) @@ st.c_lu_id2lu,
          form2lu    |-> IF elem.form # ""
                         THEN (elem.form :> Append(bucket, elem.c_lu_id)) @@ st.form2lu
                         ELSE st.form2lu ]

RECURSIVE ParseLexUnitsFrom(_, _, _, _)
ParseLexUnitsFrom(st, recs, i, verbose) ==
    IF i > Len(recs) THEN st
    ELSE ParseLexUnitsFrom(ParseLexUnit(st, recs[i], verbose), recs, i + 1, verbose)

\* _parse_lex_units over a whole document
ParseLexUnits(recs, verbose) ==
    ParseLexUnitsFrom([graph |-> EmptyGraph, c_lu_id2lu |-> <<>>, form2lu |-> <<>>],
                      recs, 1, verbose)

Units == {LexUnitRecords[i].c_lu_id : i \in DOMAIN LexUnitRecords}

RelationNames == {"HAS_HYPONYM", "SYNONYM"}

\* the edges a graph may hold between the units: parse.add_edge admits no self-loop
PossibleEdges ==
    {e \in [from : Units, to : Units, relation : RelationNames] : e.from # e.to}

\* a fixed enumeration of a set of edges (the insertion order of a built graph)
RECURSIVE SetToSeq(_)
SetToSeq(S) ==
    IF S = {} THEN <<>>
    ELSE LET e == CHOOSE x \in S : TRUE IN <<e>> \o SetToSeq(S \ {e})

\* the graphs queries run on: the units as nodes, at most MaxEdges edges
BuiltGraphs ==
    {[nodes |-> Units, edges |-> SetToSeq(E)] : E \in SubsetsUpTo(PossibleEdges, MaxEdges)}

EdgeSet(g) == Range(g.edges)


-----------------------------------------------------------------------------
(* Specifications: cornet.py, parsing specifications *)

Sep == ":"
Digits == {"1", "2", "3", "4", "5", "6", "7", "8", "9"}
DigitValue(c) == CHOOSE n \in 1..9 : ToString(n) = c

\* str.upper() on the relation names that occur
Upper(s) ==
    CASE s = "has_hyponym" -> "HAS_HYPONYM"
      [] s = "synonym" -> "SYNONYM"
      [] OTHER -> s

\* str.split(sep) on a text whose tokens are separators and separator-free runs
RECURSIVE SplitFrom(_, _, _, _)
SplitFrom(text, i, cur, acc) ==
    IF i > Len(text) THEN Append(acc, cur)
    ELSE IF text[i] = Sep THEN SplitFrom(text, i + 1, "", Append(acc, cur))
    ELSE SplitFrom(text, i + 1, text[i], acc)

Split(text) == SplitFrom(text, 1, "", <<>>)

\* str.strip() on a text that does not end in white space: a run of white
\* space (the token " ") at its start is dropped
Strip(text) == IF text # <<>> /\ text[1] = " " THEN Tail(text) ELSE text

\* a split without the two separators added at the end
_split_unit_spec_Unpadded(spec) ==
    LET fields == Split(Strip(spec))
    IN  SubSeq(fields, 1, IF Len(fields) < 3 THEN Len(fields) ELSE 3)

\* Cornet._split_unit_spec
_split_unit_spec(spec) ==
    LET fields == Split(Strip(spec \o <<Sep, Sep>>))
    IN  SubSeq(fields, 1, 3)

\* the name part of a relation specification: the text before its last character
JoinName(tokens) == IF tokens = <<>> THEN "" ELSE tokens[1]

\* a split that takes + for a part of the name
_split_rel_spec_PlusInName(spec) ==
    LET last == spec[Len(spec)]
        init == SubSeq(spec, 1, Len(spec) - 1)
    IN  IF last \in Digits
        THEN [name |-> Upper(JoinName(init)), depth |-> DigitValue(last)]
        ELSE [name |-> Upper(JoinName(spec)), depth |-> 1]

\* Cornet._split_rel_spec; spec is not empty
_split_rel_spec(spec) ==
    LET last == spec[Len(spec)]
        init == SubSeq(spec, 1, Len(spec) - 1)
    IN  IF last \in Digits
        THEN [name |-> Upper(JoinName(init)), depth |-> DigitValue(last)]
        ELSE IF last = "+"
        THEN [name |-> Upper(JoinName(init)), depth |-> 9]
        ELSE [name |-> Upper(JoinName(spec)), depth |-> 1]

-----------------------------------------------------------------------------
(* Accessors and formatting *)

_lu_has_cat(lu, cat) == cat = "" \/ Lower(c_lu_id2lu[lu].cat) = cat

_lu_has_sense(lu, sense) == sense = "" \/ c_lu_id2lu[lu].sense = sense

_rel_has_name(edge, name) == name = "" \/ edge.relation = name

\* Cornet._lu_to_spec: form, category and sense joined by the separator
_lu_to_spec(lu) ==
    <<c_lu_id2lu[lu].form, Sep, c_lu_id2lu[lu].cat, Sep, c_lu_id2lu[lu].sense>>

HandledFormats == {"spec", "xml", "raw"}

\* Cornet._get_lex_unit_formatter applied to a unit; format is a handled one
FormatLu(format, lu) == IF format = "raw" THEN lu ELSE _lu_to_spec(lu)

\* None where an edge is expected
NoneEdge == [from |-> None, to |-> None, relation |-> None]

\* Cornet._get_relation_formatter applied to an edge; None has no attribute
FormatRel(format, edge) ==
    IF format = "raw" THEN edge
    ELSE IF edge = NoneEdge THEN "AttributeError" ELSE edge.relation

RECURSIVE SelectFrom(_, _, _, _)
SelectFrom(bucket, i, cat, sense) ==
    IF i > Len(bucket) THEN <<>>
    ELSE (IF _lu_has_cat(bucket[i], cat) /\ _lu_has_sense(bucket[i], sense)
          THEN <<bucket[i]>> ELSE <<>>) \o SelectFrom(bucket, i + 1, cat, sense)

\* Cornet.get_lex_units(spec, format="raw")
get_lex_units(spec) ==
    LET f == _split_unit_spec(spec)
        bucket == IF f[1] \in DOMAIN form2lu THEN form2lu[f[1]] ELSE <<>>
    IN  SelectFrom(bucket, 1, f[2], f[3])

-----------------------------------------------------------------------------
(* networkx.MultiDiGraph iteration.  out_edges_iter(nbunch) yields, for each  *)
(* node of nbunch in turn, its out-edges neighbour by neighbour; the order of *)
(* the neighbours and of the parallel edges is the adjacency dicts' order,    *)
(* which is any order.                                                        *)

\* parallel edges (the same neighbour) are yielded one after the other
OutGrouped(p) ==
    \A i, j, k \in DOMAIN p : (i < j /\ j < k /\ p[i].to = p[k].to) => p[j].to = p[i].to

InGrouped(p) ==
    \A i, j, k \in DOMAIN p : (i < j /\ j < k /\ p[i].from = p[k].from) => p[j].from = p[i].from

OutOrders(g, n) == {p \in Perms({e \in EdgeSet(g) : e.from = n}) : OutGrouped(p)}

InOrders(g, n) == {p \in Perms({e \in EdgeSet(g) : e.to = n}) : InGrouped(p)}

RECURSIVE out_edges_iter(_, _, _)
out_edges_iter(g, nbunch, i) ==
    IF i > Len(nbunch) THEN {<<>>}
    ELSE {a \o b : a \in OutOrders(g, nbunch[i]), b \in out_edges_iter(g, nbunch, i + 1)}

RECURSIVE in_edges_iter(_, _, _)
in_edges_iter(g, nbunch, i) ==
    IF i > Len(nbunch) THEN {<<>>}
    ELSE {a \o b : a \in InOrders(g, nbunch[i]), b \in in_edges_iter(g, nbunch, i + 1)}

-----------------------------------------------------------------------------
(* Cornet._bidirectional_shortest_path *)

NonePair == [lu |-> None, edge |-> NoneEdge]

\* an optional dict: None, or a dict d
NoneDict == [isNone |-> TRUE, d |-> <<>>]
SomeDict(d) == [isNone |-> FALSE, d |-> d]

\* dict.fromkeys(lus, (None, None))
FromKeys(lus) == [u \in Range(lus) |-> NonePair]

\* ForwardLoop without the test that prevents cycles (to_lu not in pred)
RECURSIVE ForwardLoop_NoGuard(_, _, _, _, _, _)
ForwardLoop_NoGuard(es, i, rel_name, pred, succ, fringe) ==
    IF i > Len(es) THEN [pred |-> pred, fringe |-> fringe, found |-> None]
    ELSE LET e == es[i] IN
         IF ~_rel_has_name(e, rel_name)
         THEN ForwardLoop_NoGuard(es, i + 1, rel_name, pred, succ, fringe)
         ELSE LET fringe2 == Append(fringe, e.to)
                  pred2   == (e.to :> [lu |-> e.from, edge |-> e]) @@ pred
              IN  IF e.to \in DOMAIN succ
                  THEN [pred |-> pred2, fringe |-> fringe2, found |-> e.to]
                  ELSE ForwardLoop_NoGuard(es, i + 1, rel_name, pred2, succ, fringe2)

\* the forward for-loop over out_edges from position i:
\* [pred, forward_fringe, found], found being the unit returned on, or None
RECURSIVE ForwardLoop(_, _, _, _, _, _)
ForwardLoop(es, i, rel_name, pred, succ, fringe) ==
    IF i > Len(es) THEN [pred |-> pred, fringe |-> fringe, found |-> None]
    ELSE LET e == es[i] IN
         IF ~_rel_has_name(e, rel_name)
         THEN ForwardLoop(es, i + 1, rel_name, pred, succ, fringe)
         ELSE LET new     == e.to \notin DOMAIN pred
                  fringe2 == IF new THEN Append(fringe, e.to) ELSE fringe
                  pred2   == IF new THEN (e.to :> [lu |-> e.from, edge |-> e]) @@ pred
                             ELSE pred
              IN  IF e.to \in DOMAIN succ
                  THEN [pred |-> pred2, fringe |-> fringe2, found |-> e.to]
                  ELSE ForwardLoop(es, i + 1, rel_name, pred2, succ, fringe2)

\* ReverseLoop replacing the successor of a unit that has one already
RECURSIVE ReverseLoop_Overwrite(_, _, _, _, _, _)
ReverseLoop_Overwrite(es, i, rel_name, pred, succ, fringe) ==
    IF i > Len(es) THEN [succ |-> succ, fringe |-> fringe, found |-> None]
    ELSE LET e == es[i] IN
         IF ~_rel_has_name(e, rel_name)
         THEN ReverseLoop_Overwrite(es, i + 1, rel_name, pred, succ, fringe)
         ELSE LET new     == e.from \notin DOMAIN succ
                  succ2   == (e.from :> [lu |-> e.to, edge |-> e]) @@ succ
                  fringe2 == IF new THEN Append(fringe, e.from) ELSE fringe
              IN  IF e.from \in DOMAIN pred
                  THEN [succ |-> succ2, fringe |-> fringe2, found |-> e.from]
                  ELSE ReverseLoop_Overwrite(es, i + 1, rel_name, pred, succ2, fringe2)

\* the reverse for-loop over in_edges from position i: [succ, fringe, found]
RECURSIVE ReverseLoop(_, _, _, _, _, _)
ReverseLoop(es, i, rel_name, pred, succ, fringe) ==
    IF i > Len(es) THEN [succ |-> succ, fringe |-> fringe, found |-> None]
    ELSE LET e == es[i] IN
         IF ~_rel_has_name(e, rel_name)
         THEN ReverseLoop(es, i + 1, rel_name, pred, succ, fringe)
         ELSE LET new     == e.from \notin DOMAIN succ
                  succ2   == IF new THEN (e.from :> [lu |-> e.to, edge |-> e]) @@ succ
                             ELSE succ
                  fringe2 == IF new THEN Append(fringe, e.from) ELSE fringe
              IN  IF e.from \in DOMAIN pred
                  THEN [succ |-> succ2, fringe |-> fringe2, found |-> e.from]
                  ELSE ReverseLoop(es, i + 1, rel_name, pred, succ2, fringe2)

\* the first unit of from_lus that is a key of succ, or None
RECURSIVE FirstIn(_, _, _)
FirstIn(lus, i, keys) ==
    IF i > Len(lus) THEN None
    ELSE IF lus[i] \in keys THEN lus[i] ELSE FirstIn(lus, i + 1, keys)

Returned(p, lu, s) == [pred |-> p, common_lu |-> lu, succ |-> s]

NotReturned == Returned(NoneDict, None, NoneDict)

\* the while condition without its depth test
BspWhile_NoDepth ==
    /\ bsp.forward_fringe # <<>>
    /\ bsp.reverse_fringe # <<>>

\* the condition of the while loop
BspWhile ==
    /\ bsp.forward_fringe # <<>>
    /\ bsp.reverse_fringe # <<>>
    /\ bsp.level # loc.depth

-----------------------------------------------------------------------------
(* Cornet._reconstruct_path *)

Truthy(optdict) == ~optdict.isNone /\ DOMAIN optdict.d # {}

\* whether following dict d from lu ends at None, every unit met being a key of d
\* (fuel: a chain without a cycle is no longer than the number of units)
RECURSIVE ChainEnds(_, _, _)
ChainEnds(d, lu, fuel) ==
    \/ lu = None
    \/ fuel > 0 /\ lu \in DOMAIN d /\ ChainEnds(d, d[lu].lu, fuel - 1)

\* the first while loop: from the common unit to a target unit
RECURSIVE SuccPart(_, _, _)
SuccPart(succ, lu, format) ==
    IF lu = None THEN <<>>
    ELSE <<FormatLu(format, lu)>>
         \o (IF succ[lu].edge # NoneEdge THEN <<FormatRel(format, succ[lu].edge)>> ELSE <<>>)
         \o SuccPart(succ, succ[lu].lu, format)

\* the second while loop: from a source unit to the common unit's predecessor
RECURSIVE PredPart(_, _, _)
PredPart(pred, lu, format) ==
    IF lu = None THEN <<>>
    ELSE PredPart(pred, pred[lu].lu, format)
         \o (IF pred[lu].edge # NoneEdge THEN <<FormatRel(format, pred[lu].edge)>> ELSE <<>>)
         \o <<FormatLu(format, lu)>>

Ok(v) == [status |-> "ok", value |-> v]
Raised(exc) == [status |-> exc, value |-> <<>>]

_reconstruct_path(r, format) ==
    IF format \notin HandledFormats THEN Raised("ValueError")
    ELSE IF ~Truthy(r.pred) /\ ~Truthy(r.succ)
    THEN (IF r.common_lu # None
          THEN Ok(<<FormatLu(format, r.common_lu)>>)      \* a unit has a <form> child
          ELSE Ok(<<>>))
    ELSE IF r.pred.isNone \/ r.succ.isNone THEN Raised("TypeError")
    ELSE LET pred == r.pred.d
             succ == r.succ.d
             fuel == Cardinality(graph.nodes) + 1
         IN  IF ~ChainEnds(succ, r.common_lu, fuel) THEN Raised("KeyError")
             ELSE IF r.common_lu \notin DOMAIN pred THEN Raised("KeyError")
             ELSE IF format # "raw" /\ pred[r.common_lu].edge = NoneEdge
             THEN Raised("AttributeError")
             ELSE IF ~ChainEnds(pred, pred[r.common_lu].lu, fuel) THEN Raised("KeyError")
             ELSE Ok( PredPart(pred, pred[r.common_lu].lu, format)
                      \o <<FormatRel(format, pred[r.common_lu].edge)>>
                      \o SuccPart(succ, r.common_lu, format) )

-----------------------------------------------------------------------------
(* Cornet.test_lex_units_relation *)

Running == [status |-> "running", value |-> <<>>]

NoTc == [queue |-> <<>>, lus |-> {}, distance |-> 0, successors |-> <<>>]

\* parse_cdb has returned
NoParse == [at |-> "returned"]

NoBsp == [pred |-> <<>>, succ |-> <<>>, forward_fringe |-> <<>>,
          reverse_fringe |-> <<>>, level |-> 0, returned |-> NotReturned]

\* lines 347-352 and _bidirectional_shortest_path up to its while loop
TestBegin ==
    /\ pc = "call"
    /\ call.op = "test_lex_units_relation"
    /\ LET rs       == _split_rel_spec(call.rel_spec)
           from_lus == get_lex_units(call.from_spec)
           to_lus   == get_lex_units(call.to_spec)
           pred     == FromKeys(from_lus)
           succ     == FromKeys(to_lus)
           lu       == FirstIn(from_lus, 1, DOMAIN succ)
       IN  /\ loc' = [rel_name |-> rs.name, depth |-> rs.depth,
                      from_lus |-> from_lus, to_lus |-> to_lus]
           /\ bsp' = [pred |-> pred, succ |-> succ,
                      forward_fringe |-> from_lus, reverse_fringe |-> to_lus,
                      level |-> 0,
                      returned |-> IF lu # None THEN Returned(NoneDict, lu, NoneDict)
                                   ELSE NotReturned]
           /\ pc' = IF lu # None THEN "reconstruct" ELSE "while"
    /\ UNCHANGED <<db, call, tc, ret>>

\* the while loop is left: return None, None, None
BspNoPath ==
    /\ pc = "while"
    /\ ~BspWhile
    /\ bsp' = [bsp EXCEPT !.returned = Returned(NoneDict, None, NoneDict)]
    /\ pc' = "reconstruct"
    /\ UNCHANGED <<db, call, loc, tc, ret>>

\* the first half of the loop body: expand the forward fringe
BspForward ==
    /\ pc = "while"
    /\ BspWhile
    /\ \E es \in out_edges_iter(graph, bsp.forward_fringe, 1) :
         LET r == ForwardLoop(es, 1, loc.rel_name, bsp.pred, bsp.succ, <<>>) IN
         IF r.found # None
         THEN /\ bsp' = [bsp EXCEPT !.pred = r.pred, !.forward_fringe = r.fringe,
                           !.returned = Returned(SomeDict(r.pred), r.found, SomeDict(bsp.succ))]
              /\ pc' = "reconstruct"
         ELSE IF bsp.level + 1 = loc.depth
         THEN /\ bsp' = [bsp EXCEPT !.pred = r.pred, !.forward_fringe = r.fringe,
                           !.level = @ + 1,
                           !.returned = Returned(NoneDict, None, NoneDict)]
              /\ pc' = "reconstruct"
         ELSE /\ bsp' = [bsp EXCEPT !.pred = r.pred, !.forward_fringe = r.fringe,
                           !.level = @ + 1]
              /\ pc' = "reverse"
    /\ UNCHANGED <<db, call, loc, tc, ret>>

\* the second half of the loop body: expand the reverse fringe
BspReverse ==
    /\ pc = "reverse"
    /\ \E es \in in_edges_iter(graph, bsp.reverse_fringe, 1) :
         LET r == ReverseLoop(es, 1, loc.rel_name, bsp.pred, bsp.succ, <<>>) IN
         IF r.found # None
         THEN /\ bsp' = [bsp EXCEPT !.succ = r.succ, !.reverse_fringe = r.fringe,
                           !.returned = Returned(SomeDict(bsp.pred), r.found, SomeDict(r.succ))]
              /\ pc' = "reconstruct"
         ELSE /\ bsp' = [bsp EXCEPT !.succ = r.succ, !.reverse_fringe = r.fringe,
                           !.level = @ + 1]
              /\ pc' = "while"
    /\ UNCHANGED <<db, call, loc, tc, ret>>

\* line 353-354: path = self._reconstruct_path(pred, common_lu, succ, format)
TestReconstruct ==
    /\ pc = "reconstruct"
    /\ ret' = _reconstruct_path(bsp.returned, call.format)
    /\ pc' = "done"
    /\ UNCHANGED <<db, call, loc, bsp, tc>>

\* the unit and relation specifications of the calls
UnitSpecA == <<"a">>
UnitSpecA1 == <<"a", Sep, "noun", Sep, "1">>
UnitSpecB == <<"b">>
UnitSpecC == <<"c">>
UnitSpecX == <<"x">>

\* the (from, to, format) arguments of the calls: sets that share a unit, several
\* sources, several targets, single units, no source, no target
TestArgs ==
    { <<UnitSpecA, UnitSpecA1, "spec">>, <<UnitSpecA, UnitSpecC, "spec">>,
      <<UnitSpecB, UnitSpecA, "raw">>,   <<UnitSpecB, UnitSpecC, "spec">>,
      <<UnitSpecX, UnitSpecC, "raw">>,   <<UnitSpecB, UnitSpecX, "spec">> }

DepthTokens == {<<ToString(d)>> : d \in 1..MaxDepth} \cup {<<"+">>}
RelSpecs ==
    {<<"has_hyponym">>} \cup DepthTokens \cup {<<"has_hyponym">> \o t : t \in DepthTokens}

Built == ParseLexUnits(LexUnitRecords, FALSE)

InitBuilt ==
    /\ form2lu = Built.form2lu
    /\ c_lu_id2lu = Built.c_lu_id2lu
    /\ graph \in BuiltGraphs
    /\ c_sy_id2synset = <<>>
    /\ _max_depth = _default_max_depth
    /\ parse = NoParse
    /\ pc = "call"
    /\ loc = <<>>
    /\ bsp = NoBsp
    /\ tc = NoTc
    /\ ret = Running

InitPath ==
    /\ InitBuilt
    /\ \E a \in TestArgs, r \in RelSpecs :
         call = [op |-> "test_lex_units_relation", from_spec |-> a[1],
                 rel_spec |-> r, to_spec |-> a[2], format |-> a[3]]

NextPath == TestBegin \/ BspNoPath \/ BspForward \/ BspReverse \/ TestReconstruct

SpecPath == InitPath /\ [][NextPath]_vars

-----------------------------------------------------------------------------
(* Properties of test_lex_units_relation *)

Matches(e, name) == name = "" \/ e.relation = name

\* the units some walk of at most k matching edges leads to from a unit of S
RECURSIVE WithinWalk(_, _, _)
WithinWalk(S, k, name) ==
    IF k = 0 THEN S
    ELSE LET R == WithinWalk(S, k - 1, name)
         IN  R \cup {e.to : e \in {x \in EdgeSet(graph) : x.from \in R /\ Matches(x, name)}}

TestDone == pc = "done" /\ call.op = "test_lex_units_relation"

Requested == _split_rel_spec(call.rel_spec)
Sources == Range(get_lex_units(call.from_spec))
Targets == Range(get_lex_units(call.to_spec))

\* the number of edges of the returned path
PathEdges == (Len(ret.value) - 1) \div 2

IsUnitToken(x, u) == x = FormatLu(call.format, u)
IsRelToken(x, e) == x = FormatRel(call.format, e)

\* C1: test_lex_units_relation returns the empty path iff no walk of at most the
\* requested depth, over edges matching the requested relation name, leads from a
\* resolved source unit to a resolved target unit; when the resolved sets share a
\* unit, the path is that single unit.
C1_EmptyIffNoWalk ==
    TestDone =>
        /\ ret.status = "ok"
        /\ (ret.value = <<>>) <=>
               (WithinWalk(Sources, Requested.depth, Requested.name) \cap Targets = {})
        /\ (Sources \cap Targets # {}) =>
               /\ Len(ret.value) = 1
               /\ \E u \in Sources \cap Targets : IsUnitToken(ret.value[1], u)

\* the search gave up at the depth bound although a longer walk exists
C1_Witness ==
    /\ TestDone
    /\ ret.value = <<>>
    /\ bsp.level >= 2
    /\ WithinWalk(Sources, Cardinality(Units), Requested.name) \cap Targets # {}

\* C2: a non-empty returned path alternates units and relations, starts at a
\* resolved source, ends at a resolved target, every step is an edge of the graph
\* matching the requested name, it has at most depth edges, and the
\* reconstruction never fails.
C2_PathIsWalk ==
    TestDone =>
        /\ ret.status = "ok"
        /\ ret.value # <<>> =>
             /\ Len(ret.value) % 2 = 1
             /\ PathEdges <= Requested.depth
             /\ \E w \in [1..(PathEdges + 1) -> Units] :
                  /\ w[1] \in Sources
                  /\ w[PathEdges + 1] \in Targets
                  /\ \A i \in 1..(PathEdges + 1) : IsUnitToken(ret.value[2 * i - 1], w[i])
                  /\ \A i \in 1..PathEdges :
                       \E e \in EdgeSet(graph) :
                          /\ e.from = w[i] /\ e.to = w[i + 1]
                          /\ Matches(e, Requested.name)
                          /\ IsRelToken(ret.value[2 * i], e)

\* a path of three edges was put together from both maps
C2_Witness ==
    /\ TestDone
    /\ ret.status = "ok"
    /\ Len(ret.value) = 7
    /\ bsp.level >= 2

\* the least number of matching edges of a walk from S to T (-1: there is none)
MinWalk(S, T, name) ==
    IF WithinWalk(S, Cardinality(Units), name) \cap T = {} THEN -1
    ELSE CHOOSE k \in 0..Cardinality(Units) :
            /\ WithinWalk(S, k, name) \cap T # {}
            /\ \A j \in 0..(k - 1) : WithinWalk(S, j, name) \cap T = {}

\* C3: a non-empty returned path is a shortest one.
C3_PathIsShortest ==
    (TestDone /\ ret.status = "ok" /\ ret.value # <<>>) =>
        PathEdges = MinWalk(Sources, Targets, Requested.name)

\* a shortest path of two edges met at a unit that is no target, with a third
\* matching edge in the graph
C3_Witness ==
    /\ TestDone
    /\ ret.status = "ok"
    /\ PathEdges = 2
    /\ bsp.returned.common_lu \notin Targets
    /\ Cardinality({e \in EdgeSet(graph) : Matches(e, Requested.name)}) = 3

-----------------------------------------------------------------------------
(* Cornet._transitive_closure, all_common_subsumers, least_common_subsumers *)

\* the for-loop of _transitive_closure recording every matching edge's target,
\* also one that has a distance already
RECURSIVE ClosureLoop_Overwrite(_, _, _, _, _, _, _)
ClosureLoop_Overwrite(es, i, rel_name, lus, distance, successors, next_queue) ==
    IF i > Len(es) THEN [successors |-> successors, next_queue |-> next_queue]
    ELSE LET e == es[i] IN
         IF _rel_has_name(e, rel_name)
         THEN ClosureLoop_Overwrite(es, i + 1, rel_name, lus, distance,
                          (e.to :> (distance + 1)) @@ successors,
                          IF e.to \notin lus /\ e.to \notin DOMAIN successors
                          THEN Append(next_queue, e.to) ELSE next_queue)
         ELSE ClosureLoop_Overwrite(es, i + 1, rel_name, lus, distance, successors, next_queue)

\* the for-loop that also queues a reached unit of the original lus
RECURSIVE ClosureLoop_QueueSeeds(_, _, _, _, _, _, _)
ClosureLoop_QueueSeeds(es, i, rel_name, lus, distance, successors, next_queue) ==
    IF i > Len(es) THEN [successors |-> successors, next_queue |-> next_queue]
    ELSE LET e == es[i] IN
         IF _rel_has_name(e, rel_name) /\ e.to \notin DOMAIN successors
         THEN ClosureLoop_QueueSeeds(es, i + 1, rel_name, lus, distance,
                          (e.to :> (distance + 1)) @@ successors,
                          Append(next_queue, e.to))
         ELSE ClosureLoop_QueueSeeds(es, i + 1, rel_name, lus, distance, successors,
                                     next_queue)

\* the for-loop of _transitive_closure over out_edges from position i
RECURSIVE ClosureLoop(_, _, _, _, _, _, _)
ClosureLoop(es, i, rel_name, lus, distance, successors, next_queue) ==
    IF i > Len(es) THEN [successors |-> successors, next_queue |-> next_queue]
    ELSE LET e == es[i] IN
         IF _rel_has_name(e, rel_name) /\ e.to \notin DOMAIN successors
         THEN ClosureLoop(es, i + 1, rel_name, lus, distance,
                          (e.to :> (distance + 1)) @@ successors,
                          IF e.to \notin lus THEN Append(next_queue, e.to)
                          ELSE next_queue)
         ELSE ClosureLoop(es, i + 1, rel_name, lus, distance, successors, next_queue)

\* the locals of _transitive_closure(lus, rel_name) before its while loop
EnterClosure(lus) ==
    [queue |-> lus, lus |-> Range(lus), distance |-> 0, successors |-> <<>>]

\* the units of the specification added only where the closure did not reach them
WithSeeds_KeepReached(successors, lus) ==
    [u \in DOMAIN successors \cup Range(lus) |->
        IF u \in DOMAIN successors THEN successors[u] ELSE 0]

\* for lu in lus: sucs[lu] = 0
WithSeeds(successors, lus) ==
    [u \in DOMAIN successors \cup Range(lus) |->
        IF u \in Range(lus) THEN 0 ELSE successors[u]]

\* the loop over sucs1.items(), in the order items
RECURSIVE AcsLoop(_, _, _, _, _, _)
AcsLoop(items, i, sucs1, sucs2, format, acs) ==
    IF i > Len(items) THEN acs
    ELSE LET lu == items[i] IN
         IF lu \notin DOMAIN sucs2
         THEN AcsLoop(items, i + 1, sucs1, sucs2, format, acs)
         ELSE LET sum_of_dist == sucs1[lu] + sucs2[lu]
                  group == IF sum_of_dist \in DOMAIN acs THEN acs[sum_of_dist] ELSE <<>>
              IN  AcsLoop(items, i + 1, sucs1, sucs2, format,
                          (sum_of_dist :> Append(group, FormatLu(format, lu))) @@ acs)

Max(S) == CHOOSE x \in S : \A y \in S : y <= x
Min(S) == CHOOSE x \in S : \A y \in S : x <= y

\* the group at the largest key
LeastGroup_Max(acs) == IF DOMAIN acs # {} THEN acs[Max(DOMAIN acs)] ELSE <<>>

\* least_common_subsumers, lines 631-635
LeastGroup(acs) == IF DOMAIN acs # {} THEN acs[Min(DOMAIN acs)] ELSE <<>>

SubsumerOps == {"all_common_subsumers", "least_common_subsumers"}

\* all_common_subsumers up to the while loop of the first closure
AcsBegin ==
    /\ pc = "call"
    /\ call.op \in SubsumerOps
    /\ IF call.format \notin HandledFormats
       THEN /\ ret' = Raised("ValueError")
            /\ pc' = "done"
            /\ UNCHANGED <<loc, tc>>
       ELSE LET lus1 == get_lex_units(call.spec1) IN
            /\ loc' = [rel_name |-> Upper(call.rel_name), lus1 |-> lus1, sucs1 |-> <<>>,
                       lus2 |-> <<>>, sucs2 |-> <<>>, acs |-> <<>>]
            /\ tc' = EnterClosure(lus1)
            /\ pc' = "closure1"
            /\ UNCHANGED ret
    /\ UNCHANGED <<db, call, bsp>>

\* one iteration of the while loop of _transitive_closure
ClosureIterate ==
    /\ pc \in {"closure1", "closure2"}
    /\ tc.queue # <<>>
    /\ \E es \in out_edges_iter(graph, tc.queue, 1) :
         LET r == ClosureLoop(es, 1, loc.rel_name, tc.lus, tc.distance, tc.successors, <<>>)
         IN  tc' = [tc EXCEPT !.queue = r.next_queue, !.successors = r.successors,
                              !.distance = @ + 1]
    /\ UNCHANGED <<db, call, pc, loc, bsp, ret>>

\* the first closure returns; lines 574-578
AcsSecond ==
    /\ pc = "closure1"
    /\ tc.queue = <<>>
    /\ LET lus2 == get_lex_units(call.spec2) IN
       /\ loc' = [loc EXCEPT !.sucs1 = WithSeeds(tc.successors, loc.lus1), !.lus2 = lus2]
       /\ tc' = EnterClosure(lus2)
    /\ pc' = "closure2"
    /\ UNCHANGED <<db, call, bsp, ret>>

\* the second closure returns; lines 581-594, sucs1.items() in any order
AcsCollect ==
    /\ pc = "closure2"
    /\ tc.queue = <<>>
    /\ LET sucs2 == WithSeeds(tc.successors, loc.lus2) IN
       \E items \in Perms(DOMAIN loc.sucs1) :
          LET acs == AcsLoop(items, 1, loc.sucs1, sucs2, call.format, <<>>) IN
          /\ loc' = [loc EXCEPT !.sucs2 = sucs2, !.acs = acs]
          /\ IF call.op = "all_common_subsumers"
             THEN ret' = Ok(acs) /\ pc' = "done"
             ELSE ret' = ret /\ pc' = "least"
    /\ UNCHANGED <<db, call, bsp, tc>>

\* least_common_subsumers, lines 631-635
LcsReturn ==
    /\ pc = "least"
    /\ ret' = Ok(LeastGroup(loc.acs))
    /\ pc' = "done"
    /\ UNCHANGED <<db, call, loc, bsp, tc>>

SubsumerArgs ==
    { <<UnitSpecA, UnitSpecA1, "spec">>, <<UnitSpecA, UnitSpecC, "raw">>,
      <<UnitSpecB, UnitSpecA, "spec">>,  <<UnitSpecB, UnitSpecC, "spec">>,
      <<UnitSpecX, UnitSpecC, "raw">> }

InitSubsumers ==
    /\ InitBuilt
    /\ \E a \in SubsumerArgs, r \in {"has_hyponym", ""}, op \in SubsumerOps :
         call = [op |-> op, spec1 |-> a[1], spec2 |-> a[2], rel_name |-> r,
                 format |-> a[3]]

NextSubsumers == AcsBegin \/ ClosureIterate \/ AcsSecond \/ AcsCollect \/ LcsReturn

SpecSubsumers == InitSubsumers /\ [][NextSubsumers]_vars

-----------------------------------------------------------------------------
(* Properties of the closure and of the common subsumers *)

NumUnits == Cardinality(Units)

\* the least number of matching edges of a walk from a unit of S to u (-1: none)
Dist(S, u, name) == MinWalk(S, {u}, name)

\* the units a walk of one or more matching edges leads to from a unit of S
ReachedFrom(S, name) ==
    WithinWalk({e.to : e \in {x \in EdgeSet(graph) : x.from \in S /\ Matches(x, name)}},
               NumUnits, name)

ClosureReturns == pc \in {"closure1", "closure2"} /\ tc.queue = <<>>

\* C4: the map _transitive_closure returns holds every unit outside the seed set
\* that a walk of one or more matching edges reaches, at its least number of
\* edges from a seed; every key is reached by such a walk, and no recorded
\* distance is below the breadth-first distance.
C4_ClosureDistances ==
    ClosureReturns =>
        /\ \A u \in Units \ tc.lus :
              u \in ReachedFrom(tc.lus, loc.rel_name) =>
                  /\ u \in DOMAIN tc.successors
                  /\ tc.successors[u] = Dist(tc.lus, u, loc.rel_name)
        /\ \A u \in DOMAIN tc.successors :
              /\ u \in ReachedFrom(tc.lus, loc.rel_name)
              /\ tc.successors[u] >= Dist(tc.lus, u, loc.rel_name)

\* a closure over two levels that also reached one of its seeds
C4_Witness ==
    /\ ClosureReturns
    /\ tc.distance >= 3
    /\ tc.lus \cap DOMAIN tc.successors # {}
    /\ \E u \in DOMAIN tc.successors : tc.successors[u] = 2

\* the closure of a specification: its units at distance 0, the other units
\* reached from them at their least number of edges
ClosureOf(spec, name) == WithinWalk(Range(get_lex_units(spec)), NumUnits, name)
ClosureDist(spec, u, name) == Dist(Range(get_lex_units(spec)), u, name)

CommonSubsumers ==
    ClosureOf(call.spec1, Upper(call.rel_name)) \cap ClosureOf(call.spec2, Upper(call.rel_name))

PathLength(u) ==
    ClosureDist(call.spec1, u, Upper(call.rel_name))
        + ClosureDist(call.spec2, u, Upper(call.rel_name))

\* the number of times unit u is listed in the group at key k
Listed(acs, k, u) ==
    IF k \in DOMAIN acs
    THEN Cardinality({i \in DOMAIN acs[k] : IsUnitToken(acs[k][i], u)})
    ELSE 0

\* C5: all_common_subsumers lists exactly the units of both closures, each once,
\* in the group whose key is the sum of its two distances; a unit of a
\* specification counts at distance 0 also when another unit of it reaches it.
C5_AllCommonSubsumers ==
    (pc = "done" /\ call.op = "all_common_subsumers") =>
        /\ ret.status = "ok"
        /\ \A k \in DOMAIN ret.value : k \in 0..(2 * NumUnits) /\ ret.value[k] # <<>>
        /\ \A u \in Units, k \in 0..(2 * NumUnits) :
              Listed(ret.value, k, u) =
                  (IF u \in CommonSubsumers /\ k = PathLength(u) THEN 1 ELSE 0)

\* a unit of the first specification that another unit of it reaches by an
\* edge is listed, and groups at two keys are returned
C5_Witness ==
    /\ pc = "done" /\ call.op = "all_common_subsumers"
    /\ Cardinality(DOMAIN ret.value) >= 2
    /\ \E u \in Range(loc.lus1) \cap CommonSubsumers :
          u \in ReachedFrom(Range(loc.lus1), loc.rel_name)

LeastLength == Min({PathLength(u) : u \in CommonSubsumers})

\* C6: least_common_subsumers returns the common subsumers at the least sum of
\* distances, each once, and the empty list when there is none; a unit the two
\* specifications share is returned and the least sum is then 0.
C6_LeastCommonSubsumers ==
    (pc = "done" /\ call.op = "least_common_subsumers") =>
        /\ ret.status = "ok"
        /\ ret.value = (IF DOMAIN loc.acs = {} THEN <<>>
                        ELSE loc.acs[CHOOSE k \in DOMAIN loc.acs : \A j \in DOMAIN loc.acs : k <= j])
        /\ (CommonSubsumers = {}) <=> (ret.value = <<>>)
        /\ \A u \in Units :
              Cardinality({i \in DOMAIN ret.value : IsUnitToken(ret.value[i], u)}) =
                  (IF u \in CommonSubsumers /\ PathLength(u) = LeastLength THEN 1 ELSE 0)
        /\ \A u \in Range(get_lex_units(call.spec1)) \cap Range(get_lex_units(call.spec2)) :
              /\ LeastLength = 0
              /\ \E i \in DOMAIN ret.value : IsUnitToken(ret.value[i], u)

\* the least common subsumers lie at a positive sum and further common
\* subsumers lie at a larger one
C6_Witness ==
    /\ pc = "done" /\ call.op = "least_common_subsumers"
    /\ ret.value # <<>>
    /\ LeastLength > 0
    /\ Cardinality(DOMAIN loc.acs) >= 2

-----------------------------------------------------------------------------
(* Cornet.set_max_depth, get_related_lex_units, _search_related_lex_units *)

\* the test that stops one level early
ExpandHere_Strict(path, depth) == Len(path) < depth

\* if len(path) <= depth
ExpandHere(path, depth) == Len(path) <= depth

\* a call of _search_related_lex_units(from_lu, ..., path) at its for loop;
\* es is the order in which out_edges_iter will give the edges
Frame(from_lu, path, es) ==
    [from_lu |-> from_lu, path |-> path, es |-> es, j |-> 1, from_lu_related |-> <<>>]

\* the frames a call of _search_related_lex_units may start with
EnterSearch(from_lu, depth, path) ==
    IF ExpandHere(path, depth)
    THEN {Frame(from_lu, path, es) : es \in OutOrders(graph, from_lu)}
    ELSE {Frame(from_lu, path, <<>>)}

\* from_lu_related[rel_repr][to_lu_repr] = to_lu_related, with its KeyError branch
SetRelated(from_lu_related, rel_repr, to_lu_repr, to_lu_related) ==
    IF rel_repr \in DOMAIN from_lu_related
    THEN [from_lu_related EXCEPT ![rel_repr] = (to_lu_repr :> to_lu_related) @@ @]
    ELSE (rel_repr :> (to_lu_repr :> to_lu_related)) @@ from_lu_related

\* a dict cannot be a key: the raw relation formatter returns the edge's dict
Hashable(format) == format # "raw"

MaxDepthArgs == {0, 1}

\* set_max_depth(max_depth); a rejected value raises and changes nothing
SetMaxDepth ==
    /\ pc = "call"
    /\ call.op = "get_related_lex_units"
    /\ \E max_depth \in MaxDepthArgs :
         _max_depth' = IF 0 < max_depth /\ max_depth < 10 THEN max_depth ELSE _max_depth
    /\ UNCHANGED <<form2lu, c_lu_id2lu, graph, c_sy_id2synset, parse,
                   call, pc, loc, bsp, tc, ret>>

\* a depth test that never rejects
TooDeep_Never(rel_name, rel_spec, depth, max_depth) == FALSE

\* lines 295-300: the requested depth is tested against the maximal depth
\* only without a relation name, and not for the specification "+"
TooDeep(rel_name, rel_spec, depth, max_depth) ==
    rel_name = "" /\ rel_spec # <<"+">> /\ depth > max_depth

\* a query that keeps the depth it searches to as the maximal depth
RelatedBegin_StoresDepth ==
    /\ pc = "call"
    /\ call.op = "get_related_lex_units"
    /\ LET rs    == _split_rel_spec(call.rel_spec)
           depth == IF rs.name = "" /\ call.rel_spec = <<"+">> THEN _max_depth ELSE rs.depth
       IN  IF TooDeep(rs.name, call.rel_spec, rs.depth, _max_depth)
           THEN ret' = Raised("ValueError") /\ pc' = "done" /\ loc' = loc
                /\ _max_depth' = _max_depth
           ELSE IF call.format \notin HandledFormats
           THEN ret' = Raised("ValueError") /\ pc' = "done" /\ loc' = loc
                /\ _max_depth' = _max_depth
           ELSE /\ loc' = [rel_name |-> rs.name, depth |-> depth,
                           from_lus |-> get_lex_units(call.lu_spec), i |-> 1,
                           related_lus |-> <<>>, stack |-> <<>>]
                /\ pc' = "for"
                /\ ret' = ret
                /\ _max_depth' = depth
    /\ UNCHANGED <<form2lu, c_lu_id2lu, graph, c_sy_id2synset, parse, call, bsp, tc>>

\* get_related_lex_units, lines 294-306
RelatedBegin ==
    /\ pc = "call"
    /\ call.op = "get_related_lex_units"
    /\ LET rs    == _split_rel_spec(call.rel_spec)
           depth == IF rs.name = "" /\ call.rel_spec = <<"+">> THEN _max_depth ELSE rs.depth
       IN  IF TooDeep(rs.name, call.rel_spec, rs.depth, _max_depth)
           THEN ret' = Raised("ValueError") /\ pc' = "done" /\ loc' = loc
           ELSE IF call.format \notin HandledFormats
           THEN ret' = Raised("ValueError") /\ pc' = "done" /\ loc' = loc
           ELSE /\ loc' = [rel_name |-> rs.name, depth |-> depth,
                           from_lus |-> get_lex_units(call.lu_spec), i |-> 1,
                           related_lus |-> <<>>, stack |-> <<>>]
                /\ pc' = "for"
                /\ ret' = ret
    /\ UNCHANGED <<db, call, bsp, tc>>

\* lines 308-312: the search is called for the next unit of the specification
RelatedSeed ==
    /\ pc = "for"
    /\ loc.stack = <<>>
    /\ loc.i <= Len(loc.from_lus)
    /\ \E f \in EnterSearch(loc.from_lus[loc.i], loc.depth, <<loc.from_lus[loc.i]>>) :
         loc' = [loc EXCEPT !.stack = <<f>>]
    /\ UNCHANGED <<db, call, pc, bsp, tc, ret>>

\* lines 840-846: the next edge of the innermost call; a matching edge to a
\* unit that is not on the path starts a nested call
SearchStep ==
    /\ pc = "for"
    /\ loc.stack # <<>>
    /\ LET n   == Len(loc.stack)
           top == loc.stack[n]
       IN  /\ top.j <= Len(top.es)
           /\ LET e == top.es[top.j] IN
              IF e.to \notin Range(top.path) /\ _rel_has_name(e, loc.rel_name)
              THEN \E f \in EnterSearch(e.to, loc.depth, Append(top.path, e.to)) :
                     loc' = [loc EXCEPT !.stack = Append(@, f)]
              ELSE loc' = [loc EXCEPT !.stack[n].j = @ + 1]
    /\ UNCHANGED <<db, call, pc, bsp, tc, ret>>

\* line 856: the innermost call returns; lines 848-854 in its caller, or
\* line 310 in get_related_lex_units
SearchReturn ==
    /\ pc = "for"
    /\ loc.stack # <<>>
    /\ LET n   == Len(loc.stack)
           top == loc.stack[n]
       IN  /\ top.j > Len(top.es)
           /\ IF n = 1
              THEN /\ loc' = [loc EXCEPT
                               !.related_lus = (FormatLu(call.format, top.from_lu)
                                                   :> top.from_lu_related) @@ @,
                               !.i = @ + 1, !.stack = <<>>]
                   /\ UNCHANGED <<pc, ret>>
              ELSE LET caller == loc.stack[n - 1]
                       e      == caller.es[caller.j]
                   IN  IF Hashable(call.format)
                       THEN /\ loc' = [loc EXCEPT
                                        !.stack = [SubSeq(@, 1, n - 1) EXCEPT
                                            ![n - 1].from_lu_related =
                                                SetRelated(@, FormatRel(call.format, e),
                                                           FormatLu(call.format, e.to),
                                                           top.from_lu_related),
                                            ![n - 1].j = @ + 1]]
                            /\ UNCHANGED <<pc, ret>>
                       ELSE /\ ret' = Raised("TypeError")
                            /\ pc' = "done"
                            /\ loc' = loc
    /\ UNCHANGED <<db, call, bsp, tc>>

\* line 315
RelatedReturn ==
    /\ pc = "for"
    /\ loc.stack = <<>>
    /\ loc.i > Len(loc.from_lus)
    /\ ret' = Ok(loc.related_lus)
    /\ pc' = "done"
    /\ UNCHANGED <<db, call, loc, bsp, tc>>

RelatedArgs ==
    { <<UnitSpecA, "spec">>, <<UnitSpecB, "spec">>, <<UnitSpecC, "raw">>,
      <<UnitSpecX, "spec">> }

InitTree ==
    /\ InitBuilt
    /\ \E a \in RelatedArgs, r \in RelSpecs :
         call = [op |-> "get_related_lex_units", lu_spec |-> a[1], rel_spec |-> r,
                 format |-> a[2]]

NextTree ==
    SetMaxDepth \/ RelatedBegin \/ RelatedSeed \/ SearchStep \/ SearchReturn \/ RelatedReturn

SpecTree == InitTree /\ [][NextTree]_vars

-----------------------------------------------------------------------------
(* Properties of the tree of related units *)

\* the walks of k edges from unit u over edges matching name on which no
\* unit occurs twice
SimpleWalks(u, k, name) ==
    {w \in [1..k -> EdgeSet(graph)] :
        /\ w[1].from = u
        /\ \A i \in 1..k : Matches(w[i], name)
        /\ \A i \in 1..(k - 1) : w[i].to = w[i + 1].from
        /\ \A i \in 1..k : w[i].to # u
        /\ \A i, j \in 1..k : i # j => w[i].to # w[j].to}

\* the chains of (relation, unit) keys from the root of a tree, one per node
RECURSIVE Chains(_)
Chains(tree) ==
    UNION { UNION { {<<<<r, t>>>>} \cup {<<<<r, t>>>> \o c : c \in Chains(tree[r][t])}
                    : t \in DOMAIN tree[r] }
            : r \in DOMAIN tree }

\* the chain of keys of a walk
KeysOf(w) ==
    [i \in 1..Len(w) |-> <<FormatRel(call.format, w[i]), FormatLu(call.format, w[i].to)>>]

RelatedDone == pc = "done" /\ call.op = "get_related_lex_units" /\ ret.status = "ok"

\* C7: the tree get_related_lex_units returns for a seed unit holds a unit at
\* level k under relation r exactly when 1 <= k <= depth and a walk of k
\* matching edges on which no unit occurs twice leads from the seed to it and
\* ends with an r edge; the tree has one entry per unit of the specification.
C7_TreeIsSimpleWalks ==
    RelatedDone =>
        /\ DOMAIN ret.value =
              {FormatLu(call.format, u) : u \in Range(get_lex_units(call.lu_spec))}
        /\ \A u \in Range(get_lex_units(call.lu_spec)) :
              Chains(ret.value[FormatLu(call.format, u)]) =
                  UNION { {KeysOf(w) : w \in SimpleWalks(u, k, loc.rel_name)}
                          : k \in {j \in 1..NumUnits : j <= loc.depth} }

\* a tree of two levels with one unit at the end of two chains of different
\* lengths: the unit is on two branches and on neither of them twice
C7_Witness ==
    /\ RelatedDone
    /\ loc.depth = 2
    /\ \E u \in Range(loc.from_lus) :
         \E c1, c2 \in Chains(ret.value[FormatLu(call.format, u)]) :
            Len(c1) = 1 /\ Len(c2) = 2 /\ c1[1][2] = c2[2][2]

-----------------------------------------------------------------------------
(* parse.py: _parse_cdb_syn, _relations_to_edges, add_edge, parse_cdb *)

MaxSynsets == 2

\* add_edge with its first test only
add_edge_KeepDuplicates(g, from_node, to_node, relation) ==
    IF from_node = to_node THEN g
    ELSE [g EXCEPT !.edges = Append(@, [from |-> from_node, to |-> to_node,
                                        relation |-> relation])]

\* add_edge(graph, from_node, to_node, relation)
add_edge(g, from_node, to_node, relation) ==
    IF from_node = to_node THEN g
    ELSE IF \E i \in DOMAIN g.edges :
                /\ g.edges[i].from = from_node /\ g.edges[i].to = to_node
                /\ g.edges[i].relation = relation
    THEN g
    ELSE [g EXCEPT !.edges = Append(@, [from |-> from_node, to |-> to_node,
                                        relation |-> relation])]

\* for from_node in from_nodes: for to_node in to_nodes: add_edge(...), from
\* position (i, j); in _synonym_relations_to_edges the test "is not" comes first
RECURSIVE EdgeLoop(_, _, _, _, _, _)
EdgeLoop(g, from_nodes, to_nodes, i, j, relation) ==
    IF i > Len(from_nodes) THEN g
    ELSE IF j > Len(to_nodes) THEN EdgeLoop(g, from_nodes, to_nodes, i + 1, 1, relation)
    ELSE EdgeLoop(add_edge(g, from_nodes[i], to_nodes[j], relation),
                  from_nodes, to_nodes, i, j + 1, relation)

\* the synonym elements of one synset: lus after the last of them
RECURSIVE SynonymLoop(_, _, _, _, _)
SynonymLoop(synonyms, i, units, lus, seen_lu_ids) ==
    IF i > Len(synonyms) THEN lus
    ELSE LET c_lu_id == synonyms[i] IN
         IF c_lu_id \notin DOMAIN units
         THEN SynonymLoop(synonyms, i + 1, units, lus, seen_lu_ids)
         ELSE IF c_lu_id \notin seen_lu_ids
         THEN SynonymLoop(synonyms, i + 1, units, Append(lus, c_lu_id),
                          seen_lu_ids \cup {c_lu_id})
         ELSE SynonymLoop(synonyms, i + 1, units, lus, seen_lu_ids)

\* the cdb_synset branch of _parse_cdb_syn for element el with members lus;
\* an attribute that is None is not there
RegisterSynset(sy_id2synset, sy_id2lus, el, elem, lus) ==
    LET c_sy_id     == elem.c_sy_id
        d_synset_id == elem.d_synset_id
        first       == c_sy_id # None /\ c_sy_id \notin DOMAIN sy_id2synset
        synset1     == IF first THEN (c_sy_id :> el) @@ sy_id2synset ELSE sy_id2synset
        lus1        == IF first THEN (c_sy_id :> lus) @@ sy_id2lus ELSE sy_id2lus
    IN  IF d_synset_id # None /\ d_synset_id # c_sy_id
        THEN IF c_sy_id \in DOMAIN lus1
             THEN [raised |-> FALSE,
                   sy_id2synset |-> (d_synset_id :> el) @@ synset1,
                   sy_id2lus |-> (d_synset_id :> lus1[c_sy_id]) @@ lus1]
             ELSE [raised |-> TRUE, sy_id2synset |-> synset1, sy_id2lus |-> lus1]
        ELSE [raised |-> FALSE, sy_id2synset |-> synset1, sy_id2lus |-> lus1]

\* from_node.set("c_sy_id", ...) for the nodes from position i
RECURSIVE SetSynsetIds(_, _, _, _)
SetSynsetIds(units, nodes, i, c_sy_id) ==
    IF i > Len(nodes) THEN units
    ELSE SetSynsetIds([units EXCEPT ![nodes[i]].c_sy_id = Append(@, c_sy_id)],
                      nodes, i + 1, c_sy_id)

\* _synonym_relations_to_edges: the edges
_synonym_relations_to_edges(g, elem, sy_id2lus) ==
    EdgeLoop(g, sy_id2lus[elem.c_sy_id], sy_id2lus[elem.c_sy_id], 1, 1, "SYNONYM")

\* _wn_internal_relations_to_edges from relation element i
RECURSIVE _wn_internal_relations_to_edges(_, _, _, _)
_wn_internal_relations_to_edges(g, elem, sy_id2lus, i) ==
    IF i > Len(elem.relations) THEN g
    ELSE LET relation == elem.relations[i].relation_name
             target   == elem.relations[i].target
         IN  IF target \notin DOMAIN sy_id2lus
             THEN _wn_internal_relations_to_edges(g, elem, sy_id2lus, i + 1)
             ELSE _wn_internal_relations_to_edges(
                      EdgeLoop(g, sy_id2lus[elem.c_sy_id], sy_id2lus[target], 1, 1, relation),
                      elem, sy_id2lus, i + 1)

\* parse_cdb up to the return of _parse_cdb_lu
ParseCdbLu ==
    /\ pc = "call"
    /\ call.op = "parse_cdb"
    /\ parse.at = "cdb_lu"
    /\ LET st == ParseLexUnits(LexUnitRecords, call.verbose) IN
       /\ form2lu' = st.form2lu
       /\ c_lu_id2lu' = st.c_lu_id2lu
       /\ graph' = st.graph
    /\ parse' = [parse EXCEPT !.at = "cdb_syn"]
    /\ UNCHANGED <<c_sy_id2synset, _max_depth, call, pc, loc, bsp, tc, ret>>

\* _parse_cdb_syn: the synonym elements of the next synset and its cdb_synset
\* element; a KeyError leaves parse_cdb
ParseSynset ==
    /\ parse.at = "cdb_syn"
    /\ parse.i <= Len(parse.cdb_syn)
    /\ LET elem == parse.cdb_syn[parse.i]
           lus  == SynonymLoop(elem.synonyms, 1, c_lu_id2lu, <<>>, {})
           r    == RegisterSynset(c_sy_id2synset, parse.sy_id2lus, parse.i, elem, lus)
       IN  /\ c_sy_id2synset' = r.sy_id2synset
           /\ IF r.raised
              THEN /\ parse' = [parse EXCEPT !.at = "raised"]
                   /\ ret' = Raised("KeyError")
                   /\ pc' = "done"
              ELSE /\ parse' = [parse EXCEPT !.sy_id2lus = r.sy_id2lus, !.i = @ + 1]
                   /\ UNCHANGED <<ret, pc>>
    /\ UNCHANGED <<form2lu, c_lu_id2lu, graph, _max_depth, call, loc, bsp, tc>>

\* _parse_cdb_syn returns; _relations_to_edges takes set(sy_id2synset.values())
ParseSynReturn ==
    /\ parse.at = "cdb_syn"
    /\ parse.i > Len(parse.cdb_syn)
    /\ parse' = [parse EXCEPT !.at = "edges", !.todo = Range(c_sy_id2synset)]
    /\ UNCHANGED <<form2lu, c_lu_id2lu, graph, c_sy_id2synset, _max_depth,
                   call, pc, loc, bsp, tc, ret>>

\* one iteration of the loop of _relations_to_edges, over a set: any element next
RelationsToEdges ==
    /\ parse.at = "edges"
    /\ \E synset_el \in parse.todo :
         LET elem == parse.cdb_syn[synset_el] IN
         /\ c_lu_id2lu' = SetSynsetIds(c_lu_id2lu, parse.sy_id2lus[elem.c_sy_id], 1,
                                       elem.c_sy_id)
         /\ graph' = _wn_internal_relations_to_edges(
                         _synonym_relations_to_edges(graph, elem, parse.sy_id2lus),
                         elem, parse.sy_id2lus, 1)
         /\ parse' = [parse EXCEPT !.todo = @ \ {synset_el}]
    /\ UNCHANGED <<form2lu, c_sy_id2synset, _max_depth, call, pc, loc, bsp, tc, ret>>

\* parse_cdb returns; sy_id2lus is dropped
ParseReturn ==
    /\ parse.at = "edges"
    /\ parse.todo = {}
    /\ parse' = [parse EXCEPT !.at = "returned"]
    /\ ret' = Ok(<<>>)
    /\ pc' = "done"
    /\ UNCHANGED <<form2lu, c_lu_id2lu, graph, c_sy_id2synset, _max_depth,
                   call, loc, bsp, tc>>

SynsetIds == {"x", "y"}

\* member lists: a pair, a single unit, a list with an unknown id and a
\* repeated id, and three units
SynonymLists ==
    { <<"u1", "u2">>, <<"u3">>, <<"u1", "u9", "u2", "u1">>, <<"u1", "u2", "u3">> }

Relation(name, target) == [relation_name |-> name, target |-> target]

\* lists of relation elements; "q" is the id of no synset
RelationLists ==
    { <<>>,
      <<Relation("HAS_HYPONYM", "x")>>,
      <<Relation("HAS_HYPONYM", "y"), Relation("HAS_HYPONYM", "y")>>,
      <<Relation("SYNONYM", "q"), Relation("SYNONYM", "y")>> }

\* the cdb_synset elements a document may hold
SynsetRecords ==
    [c_sy_id : SynsetIds \cup {None}, d_synset_id : SynsetIds \cup {None},
     synonyms : SynonymLists, relations : RelationLists]

InitBuild ==
    /\ form2lu = <<>>
    /\ c_lu_id2lu = <<>>
    /\ graph = EmptyGraph
    /\ c_sy_id2synset = <<>>
    /\ _max_depth = _default_max_depth
    /\ \E n \in 1..MaxSynsets : \E cdb_syn \in [1..n -> SynsetRecords] :
         parse = [at |-> "cdb_lu", cdb_syn |-> cdb_syn, i |-> 1,
                  sy_id2lus |-> <<>>, todo |-> {}]
    /\ \E verbose \in BOOLEAN : call = [op |-> "parse_cdb", verbose |-> verbose]
    /\ pc = "call"
    /\ loc = <<>>
    /\ bsp = NoBsp
    /\ tc = NoTc
    /\ ret = Running

NextBuild == ParseCdbLu \/ ParseSynset \/ ParseSynReturn \/ RelationsToEdges \/ ParseReturn

SpecBuild == InitBuild /\ [][NextBuild]_vars

-----------------------------------------------------------------------------
(* Properties of the graph parse_cdb builds *)

\* the synset elements whose edges _relations_to_edges has added
Converted == IF parse.at \in {"edges", "returned"}
             THEN Range(c_sy_id2synset) \ parse.todo ELSE {}

\* the edges add_edge was asked for when element el was converted
AskedFor(el) ==
    LET elem  == parse.cdb_syn[el]
        nodes == Range(parse.sy_id2lus[elem.c_sy_id])
    IN  {[from |-> a, to |-> b, relation |-> "SYNONYM"] : a \in nodes, b \in nodes}
        \cup UNION { IF elem.relations[i].target \in DOMAIN parse.sy_id2lus
                     THEN {[from |-> a, to |-> b,
                            relation |-> elem.relations[i].relation_name] :
                             a \in nodes,
                             b \in Range(parse.sy_id2lus[elem.relations[i].target])}
                     ELSE {}
                     : i \in DOMAIN elem.relations }

\* C8: in the graph parse_cdb builds no edge joins a unit to itself and no two
\* edges have the same source, target and relation name, while every edge
\* add_edge was asked for between two different units is there, also when an
\* edge of another name joins the same two units.
C8_NoLoopNoDuplicate ==
    /\ \A i \in DOMAIN graph.edges : graph.edges[i].from # graph.edges[i].to
    /\ \A i, j \in DOMAIN graph.edges : graph.edges[i] = graph.edges[j] => i = j
    /\ \A el \in Converted : \A e \in AskedFor(el) : e.from # e.to => e \in EdgeSet(graph)

\* construction has ended after a self-loop and a duplicate were asked for, and
\* two units are joined by edges of two names
C8_Witness ==
    /\ pc = "done" /\ call.op = "parse_cdb" /\ ret.status = "ok"
    /\ \E el \in Converted : \E e \in AskedFor(el) : e.from = e.to
    /\ \E el1, el2 \in Converted : el1 # el2 /\ AskedFor(el1) \cap AskedFor(el2) # {}
    /\ \E e1, e2 \in EdgeSet(graph) :
          e1.from = e2.from /\ e1.to = e2.to /\ e1.relation # e2.relation

Built_ok == pc = "done" /\ call.op = "parse_cdb" /\ ret.status = "ok"

\* the members of a synset element that are units, each once
Members(elem) == {u \in Range(elem.synonyms) : u \in DOMAIN c_lu_id2lu}

\* the synset elements of the document whose c_sy_id no earlier element has,
\* neither as its c_sy_id nor as its d_synset_id
FirstOfItsId ==
    {el \in DOMAIN parse.cdb_syn :
        /\ parse.cdb_syn[el].c_sy_id # None
        /\ \A k \in 1..(el - 1) :
              /\ parse.cdb_syn[k].c_sy_id # parse.cdb_syn[el].c_sy_id
              /\ parse.cdb_syn[k].d_synset_id # parse.cdb_syn[el].c_sy_id}

\* C9: after construction every two different resolvable members A and B of
\* every synset (the first element with its id) are joined by a SYNONYM edge from A to B (and so from B to A),
\* a member listed twice counting once and an unknown member id being skipped.
C9_SynonymEdges ==
    Built_ok =>
        \A el \in FirstOfItsId :
            \A a, b \in Members(parse.cdb_syn[el]) :
                a # b => [from |-> a, to |-> b, relation |-> "SYNONYM"] \in EdgeSet(graph)

\* the synset elements that have t as their primary or their alternate id
WithId(t) ==
    {el \in DOMAIN parse.cdb_syn :
        t # None /\ (parse.cdb_syn[el].c_sy_id = t \/ parse.cdb_syn[el].d_synset_id = t)}

\* C10: after construction, for every relation (r, t) of a synset S whose target
\* t is the primary or the alternate id of a synset, every member of S has an
\* r edge to every different member of a synset T with that id.
C10_RelationEdges ==
    Built_ok =>
        \A el \in FirstOfItsId :
            \A i \in DOMAIN parse.cdb_syn[el].relations :
                LET rel == parse.cdb_syn[el].relations[i] IN
                WithId(rel.target) # {} =>
                    \E t \in WithId(rel.target) :
                        \A a \in Members(parse.cdb_syn[el]), b \in Members(parse.cdb_syn[t]) :
                            a # b => [from |-> a, to |-> b, relation |-> rel.relation_name]
                                        \in EdgeSet(graph)

-----------------------------------------------------------------------------
(* Properties of the synset pass *)

SynsetPassDone == parse.at \in {"edges", "returned"}

\* the first synset element of the document that has t as primary or alternate id
FirstWithId(t) == Min(WithId(t))

\* C11: after the synset pass every registered id, primary or alternate, maps
\* to the first synset element of the document that carries it and to that
\* element's member list, so the two ids of a synset map to the same element
\* and list and a later registration under a registered id changes nothing.
C11_FirstRegistrationWins ==
    SynsetPassDone =>
        \A t \in DOMAIN c_sy_id2synset :
            /\ c_sy_id2synset[t] = FirstWithId(t)
            /\ Range(parse.sy_id2lus[t]) = Members(parse.cdb_syn[FirstWithId(t)])
            /\ Len(parse.sy_id2lus[t]) = Cardinality(Members(parse.cdb_syn[FirstWithId(t)]))

-----------------------------------------------------------------------------
(* parse.py: _parse_lex_units, one cdb_lu element at a time *)

MaxUnits == 3

\* the two assert statements of _parse_lex_units on a cdb_lu element
AssertsHold(units, elem) ==
    /\ elem.c_sy_id = <<>>
    /\ elem.c_lu_id # "" /\ elem.c_lu_id \notin DOMAIN units

\* the loop of _parse_lex_units on the next cdb_lu element (its form element
\* comes just before it); a failed assert leaves parse_cdb
ParseLexUnitStep ==
    /\ parse.at = "lex_units"
    /\ parse.i <= Len(parse.cdb_lu)
    /\ LET elem == parse.cdb_lu[parse.i] IN
       IF AssertsHold(c_lu_id2lu, elem)
       THEN LET st == ParseLexUnit([graph |-> graph, c_lu_id2lu |-> c_lu_id2lu,
                                    form2lu |-> form2lu], elem, call.verbose)
            IN  /\ form2lu' = st.form2lu
                /\ c_lu_id2lu' = st.c_lu_id2lu
                /\ graph' = st.graph
                /\ parse' = [parse EXCEPT !.i = @ + 1]
                /\ UNCHANGED <<pc, ret>>
       ELSE /\ parse' = [parse EXCEPT !.at = "raised"]
            /\ ret' = Raised("AssertionError")
            /\ pc' = "done"
            /\ UNCHANGED <<form2lu, c_lu_id2lu, graph>>
    /\ UNCHANGED <<c_sy_id2synset, _max_depth, call, loc, bsp, tc>>

\* _parse_lex_units returns form2lu, c_lu_id2lu
ParseLexUnitsReturn ==
    /\ parse.at = "lex_units"
    /\ parse.i > Len(parse.cdb_lu)
    /\ parse' = [parse EXCEPT !.at = "lex_units_returned"]
    /\ ret' = Ok(<<>>)
    /\ pc' = "done"
    /\ UNCHANGED <<form2lu, c_lu_id2lu, graph, c_sy_id2synset, _max_depth,
                   call, loc, bsp, tc>>

\* the cdb_lu elements a document may hold
UnitRecords ==
    [c_lu_id : {"u1", "u2", "u3"}, form : {"a", "b", ""},
     cat : {"noun", "NOUN", "ADJECTIVE", "adverb"}, sense : {"1"}, c_sy_id : {<<>>}]

InitUnits ==
    /\ form2lu = <<>>
    /\ c_lu_id2lu = <<>>
    /\ graph = EmptyGraph
    /\ c_sy_id2synset = <<>>
    /\ _max_depth = _default_max_depth
    /\ \E n \in 1..MaxUnits : \E cdb_lu \in [1..n -> UnitRecords] :
         parse = [at |-> "lex_units", cdb_lu |-> cdb_lu, i |-> 1]
    /\ \E verbose \in BOOLEAN : call = [op |-> "_parse_cdb_lu", verbose |-> verbose]
    /\ pc = "call"
    /\ loc = <<>>
    /\ bsp = NoBsp
    /\ tc = NoTc
    /\ ret = Running

NextUnits == ParseLexUnitStep \/ ParseLexUnitsReturn

SpecUnits == InitUnits /\ [][NextUnits]_vars

-----------------------------------------------------------------------------
(* Properties of the lexical-unit pass *)

\* the positions in the document of the units ingested so far
Ingested == 1..(parse.i - 1)

\* the number of times unit u is listed in the bucket of form
TimesIn(form, u) ==
    IF form \in DOMAIN form2lu
    THEN Cardinality({p \in DOMAIN form2lu[form] : form2lu[form][p] = u})
    ELSE 0

\* the position in the document of the unit with id u
PositionOf(u) == CHOOSE k \in Ingested : parse.cdb_lu[k].c_lu_id = u

\* C12: every ingested unit is a node of the graph, the value of exactly one
\* key of c_lu_id2lu, listed once in the bucket of its own spelling and in no
\* other bucket of form2lu, and every bucket lists its units in document order.
C12_UnitsIndexed ==
    parse.at \in {"lex_units", "lex_units_returned"} =>
    /\ \A k \in Ingested :
          LET elem == parse.cdb_lu[k] IN
          /\ elem.c_lu_id \in graph.nodes
          /\ Cardinality({key \in DOMAIN c_lu_id2lu :
                             c_lu_id2lu[key].c_lu_id = elem.c_lu_id}) = 1
          /\ \A form \in DOMAIN form2lu \cup {elem.form} :
                TimesIn(form, elem.c_lu_id) =
                    (IF form = elem.form /\ form # "" THEN 1 ELSE 0)
    /\ \A form \in DOMAIN form2lu :
          \A p, q \in DOMAIN form2lu[form] :
              p < q => PositionOf(form2lu[form][p]) < PositionOf(form2lu[form][q])

\* three units are ingested: two share a bucket, one has no spelling, and no
\* edge has been added
C12_Witness ==
    /\ parse.at = "lex_units_returned"
    /\ Cardinality(graph.nodes) = 3
    /\ graph.edges = <<>>
    /\ \E form \in DOMAIN form2lu : Len(form2lu[form]) = 2
    /\ \E k \in Ingested : parse.cdb_lu[k].form = ""


\* the category in lower case with the two long names shortened
Canonical(cat) ==
    IF Lower(cat) = "adjective" THEN "adj"
    ELSE IF Lower(cat) = "adverb" THEN "adv" ELSE Lower(cat)

\* C13: whatever the verbose setting, the stored category of every ingested
\* unit is the source category in lower case, with adjective replaced by adj
\* and adverb by adv.
C13_CategoryNormalized ==
    parse.at \in {"lex_units", "lex_units_returned"} =>
        \A k \in Ingested :
            c_lu_id2lu[parse.cdb_lu[k].c_lu_id].cat = Canonical(parse.cdb_lu[k].cat)

-----------------------------------------------------------------------------
(* Cornet.get_lex_units as a public operation *)

\* get_lex_units(spec, format), lines 235-242
GetLexUnits ==
    /\ pc = "call"
    /\ call.op = "get_lex_units"
    /\ IF call.format \notin HandledFormats
       THEN ret' = Raised("ValueError") /\ loc' = loc
       ELSE LET lus == get_lex_units(call.spec) IN
            /\ loc' = [lus |-> lus]
            /\ ret' = Ok([p \in DOMAIN lus |-> FormatLu(call.format, lus[p])])
    /\ pc' = "done"
    /\ UNCHANGED <<db, call, bsp, tc>>

\* the text form:cat:sense without the separators and empty fields at its end
UnitSpecText(form, cat, sense) ==
    IF sense # "" THEN (IF form = "" THEN <<>> ELSE <<form>>) \o <<Sep>>
                       \o (IF cat = "" THEN <<>> ELSE <<cat>>) \o <<Sep, sense>>
    ELSE IF cat # "" THEN (IF form = "" THEN <<>> ELSE <<form>>) \o <<Sep, cat>>
    ELSE IF form # "" THEN <<form>> ELSE <<>>

\* the fields of the specifications asked for
LookupFields == [form : {"a", "x", ""}, cat : {"", "noun", "NOUN", "adj"},
                 sense : {"", "1", "9"}]

\* the cdb_lu elements of the documents looked into: the k-th has id uk
LookupRecords(k) ==
    [c_lu_id : {"u" \o ToString(k)}, form : {"a", "b"},
     cat : {"noun", "NOUN", "ADJECTIVE"}, sense : {"1", "2"}, c_sy_id : {<<>>}]

LookupDocuments ==
    UNION { {d \in [1..n -> UNION {LookupRecords(k) : k \in 1..n}] :
                \A k \in 1..n : d[k] \in LookupRecords(k)} : n \in 1..MaxUnits }

InitLookup ==
    /\ \E cdb_lu \in LookupDocuments, verbose \in BOOLEAN :
         LET st == ParseLexUnits(cdb_lu, verbose) IN
         /\ form2lu = st.form2lu
         /\ c_lu_id2lu = st.c_lu_id2lu
         /\ graph = st.graph
         /\ parse = [at |-> "returned", cdb_lu |-> cdb_lu]
    /\ c_sy_id2synset = <<>>
    /\ _max_depth = _default_max_depth
    /\ \E f \in LookupFields, format \in {"spec", "raw", "html"} :
         call = [op |-> "get_lex_units", spec |-> UnitSpecText(f.form, f.cat, f.sense),
                 format |-> format]
    /\ pc = "call"
    /\ loc = <<>>
    /\ bsp = NoBsp
    /\ tc = NoTc
    /\ ret = Running

NextLookup == GetLexUnits

SpecLookup == InitLookup /\ [][NextLookup]_vars

-----------------------------------------------------------------------------
(* Properties of get_lex_units *)

\* the fields the specification of the call was written from
Asked == CHOOSE f \in LookupFields : UnitSpecText(f.form, f.cat, f.sense) = call.spec

\* the positions in the document of the units the specification selects,
\* categories compared without regard to case
Selected ==
    {k \in DOMAIN parse.cdb_lu :
        LET lu == c_lu_id2lu[parse.cdb_lu[k].c_lu_id] IN
        /\ lu.form = Asked.form
        /\ Asked.cat = "" \/ Lower(lu.cat) = Lower(Asked.cat)
        /\ Asked.sense = "" \/ lu.sense = Asked.sense}

LookupDone == pc = "done" /\ call.op = "get_lex_units"

\* C14: get_lex_units returns, in document order and each once, exactly the
\* units whose spelling is the form field, whose category is the category
\* field whatever the case of either, and whose sense is the sense field, an
\* empty field constraining nothing; without a match the list is empty and no
\* error is raised.
C14_LexUnitsSelected ==
    (LookupDone /\ call.format \in HandledFormats) =>
        /\ ret.status = "ok"
        /\ Len(ret.value) = Cardinality(Selected)
        /\ \A p \in DOMAIN ret.value :
              /\ \E k \in Selected : loc.lus[p] = parse.cdb_lu[k].c_lu_id
              /\ ret.value[p] = FormatLu(call.format, loc.lus[p])
              /\ \A q \in DOMAIN ret.value :
                    p < q => \E k1, k2 \in Selected :
                                /\ k1 < k2
                                /\ loc.lus[p] = parse.cdb_lu[k1].c_lu_id
                                /\ loc.lus[q] = parse.cdb_lu[k2].c_lu_id

-----------------------------------------------------------------------------
(* Properties of relation specifications and of the maximal depth *)

\* the last character of the relation specification of the call
LastOfRelSpec == call.rel_spec[Len(call.rel_spec)]

\* the relation specification of the call has been split and the depth settled
RelatedSplit == call.op = "get_related_lex_units" /\ pc = "for"

\* C15: a last character 1..9 of a relation specification is the depth and is
\* not part of the name, a last character + stands for the configured maximal
\* depth and is not part of the name, with or without a name before it;
\* otherwise the depth is 1 and the text is the name; the name is upper-cased.
C15_RelSpecSplit ==
    RelatedSplit =>
        /\ loc.depth = (IF LastOfRelSpec \in Digits THEN DigitValue(LastOfRelSpec)
                        ELSE IF LastOfRelSpec = "+" THEN _max_depth ELSE 1)
        /\ loc.rel_name = (IF call.rel_spec[1] \in Digits \cup {"+"} THEN ""
                           ELSE Upper(call.rel_spec[1]))


\* the depth a relation specification asks for; + asks for the maximal depth
RequestedDepth ==
    IF LastOfRelSpec \in Digits THEN DigitValue(LastOfRelSpec)
    ELSE IF LastOfRelSpec = "+" THEN _max_depth ELSE 1

\* C16: with the maximal depth set to m, get_related_lex_units rejects a
\* relation specification, with or without a name, that asks for a depth above
\* m before it expands anything, and no tree it returns nests related units
\* more than m levels below a seed unit.
C16_DepthWithinMaximum ==
    (call.op = "get_related_lex_units" /\ pc # "call") =>
        /\ RequestedDepth > _max_depth => (pc = "done" /\ ret = Raised("ValueError"))
        /\ RelatedDone =>
              \A u \in DOMAIN ret.value : \A c \in Chains(ret.value[u]) : Len(c) <= _max_depth


\* C15 as amended: a last character 1..9 is the depth and is not part of the
\* name; a last character + is not part of the name and stands for depth 9,
\* except that the specification "+" alone stands for the configured maximal
\* depth in get_related_lex_units; otherwise the depth is 1 and the text is
\* the name; the name is upper-cased.
C15_RelSpecSplit_Amended ==
    RelatedSplit =>
        /\ loc.depth = (IF LastOfRelSpec \in Digits THEN DigitValue(LastOfRelSpec)
                        ELSE IF call.rel_spec = <<"+">> THEN _max_depth
                        ELSE IF LastOfRelSpec = "+" THEN 9 ELSE 1)
        /\ loc.rel_name = (IF call.rel_spec[1] \in Digits \cup {"+"} THEN ""
                           ELSE Upper(call.rel_spec[1]))

\* with the maximal depth set to 1, a name followed by + has been split
\* into the upper-cased name and depth 9
C15_Witness ==
    /\ RelatedSplit
    /\ _max_depth = 1
    /\ Len(call.rel_spec) = 2 /\ LastOfRelSpec = "+"
    /\ loc.depth = 9 /\ loc.rel_name = "HAS_HYPONYM"

\* C16 as amended: the maximal depth is always in 1..9; get_related_lex_units
\* rejects, before it expands anything, a relation specification without a
\* name that asks for a depth above the maximal depth m, and a tree returned
\* for a specification without a name nests at most m levels; a specification
\* with a name is never rejected for its depth, and every tree nests at most
\* as many levels as the specification asks for (9 for a name followed by +).
C16_DepthWithinMaximum_Amended ==
    (call.op = "get_related_lex_units" /\ pc # "call") =>
        /\ _max_depth \in 1..9
        /\ (call.rel_spec[1] \in Digits \cup {"+"} /\ RequestedDepth > _max_depth)
              => (pc = "done" /\ ret = Raised("ValueError"))
        /\ call.rel_spec[1] \notin Digits \cup {"+"} => ret.status # "ValueError"
        /\ RelatedDone =>
              \A u \in DOMAIN ret.value : \A c \in Chains(ret.value[u]) :
                  /\ call.rel_spec[1] \in Digits \cup {"+"} => Len(c) <= _max_depth
                  /\ Len(c) <= (IF Len(call.rel_spec) = 2 /\ LastOfRelSpec = "+"
                                THEN 9 ELSE RequestedDepth)

\* with the maximal depth set to 1, a specification with a name and depth 2
\* has returned a tree of two levels
C16_Witness ==
    /\ RelatedDone
    /\ _max_depth = 1
    /\ call.rel_spec = <<"has_hyponym", "2">>
    /\ \E u \in DOMAIN ret.value : \E c \in Chains(ret.value[u]) : Len(c) = 2

-----------------------------------------------------------------------------
(* Cornet._split_unit_spec on its own *)

MaxTokens == 5

\* _split_unit_spec(spec)
SplitUnitSpec ==
    /\ pc = "call"
    /\ call.op = "_split_unit_spec"
    /\ ret' = Ok(_split_unit_spec(call.spec))
    /\ pc' = "done"
    /\ UNCHANGED <<db, call, loc, bsp, tc>>

\* the texts of up to MaxTokens tokens: separators and runs of other
\* characters, no two runs next to each other
Texts ==
    UNION { {t \in [1..n -> {"a", "noun", "1", " ", Sep}] :
                \A i \in 1..(n - 1) : t[i] = Sep \/ t[i + 1] = Sep}
            : n \in 0..MaxTokens }

InitSplit ==
    /\ InitBuilt
    /\ graph.edges = <<>>
    /\ \E t \in Texts : call = [op |-> "_split_unit_spec", spec |-> t]

NextSplit == SplitUnitSpec

SpecSplit == InitSplit /\ [][NextSplit]_vars

\* the number of separators of the text of the call
Separators == Cardinality({i \in DOMAIN call.spec : call.spec[i] = Sep})

\* C17: _split_unit_spec returns three fields for every text; the fields a
\* text with fewer than two separators leaves out are empty, a text written
\* as form:cat:sense gives back its fields, and a text with more than two
\* separators is split as well.
C17_ThreeFields ==
    (pc = "done" /\ call.op = "_split_unit_spec") =>
        /\ ret.status = "ok"
        /\ Len(ret.value) = 3
        /\ \A j \in 1..3 : j > Separators + 1 => ret.value[j] = ""
        /\ \A j \in 1..3 : ret.value[j] # Sep
        /\ \A f \in [form : {"a", ""}, cat : {"noun", ""}, sense : {"1", ""}] :
              call.spec = UnitSpecText(f.form, f.cat, f.sense)
                  => ret.value = <<f.form, f.cat, f.sense>>

\* a text with three separators has been split into its first three fields
C17_Witness ==
    /\ pc = "done" /\ call.op = "_split_unit_spec"
    /\ Separators = 3
    /\ ret.value = <<"a", "noun", "">>

-----------------------------------------------------------------------------
(* The output format of the query operations *)

\* the calls of the query operations with a handled format and with one that
\* _get_lex_unit_formatter does not know
FormatCalls ==
    LET formats   == {"spec", "html"}
        rel_specs == {<<"has_hyponym", "+">>, <<"2">>}
    IN  { [op |-> "test_lex_units_relation", from_spec |-> UnitSpecA,
           rel_spec |-> r, to_spec |-> UnitSpecC, format |-> f]
             : r \in rel_specs, f \in formats }
        \cup { [op |-> op, spec1 |-> UnitSpecA, spec2 |-> UnitSpecC,
                rel_name |-> "has_hyponym", format |-> f]
                 : op \in SubsumerOps, f \in formats }
        \cup { [op |-> "get_related_lex_units", lu_spec |-> UnitSpecA,
                rel_spec |-> r, format |-> f]
                 : r \in rel_specs, f \in formats }
        \cup { [op |-> "get_lex_units", spec |-> UnitSpecA, format |-> f]
                 : f \in formats }

InitFormat ==
    /\ InitBuilt
    /\ call \in FormatCalls

NextFormat == NextPath \/ NextSubsumers \/ NextTree \/ NextLookup

SpecFormat == InitFormat /\ [][NextFormat]_vars

\* C18: a call of a query operation with an output format that is not handled
\* is rejected with an error before any step of a search: it is either not
\* yet begun or has raised ValueError, and no state of a path search, a
\* closure or a tree expansion has been set up for it.
C18_FormatRejectedFirst ==
    call.format \notin HandledFormats =>
        /\ pc \in {"call", "done"}
        /\ pc = "done" => ret = Raised("ValueError")
        /\ bsp = NoBsp
        /\ tc = NoTc
        /\ loc = <<>>

-----------------------------------------------------------------------------
(* Cornet.get_synsets *)

\* Cornet._synset_to_specs from synonym element i: the specifications of the
\* members that are units, each c_lu_id once
RECURSIVE _synset_to_specs(_, _, _, _)
_synset_to_specs(synonyms, i, specs, seen_lu_ids) ==
    IF i > Len(synonyms) THEN specs
    ELSE LET c_lu_id == synonyms[i] IN
         IF c_lu_id \notin DOMAIN c_lu_id2lu
         THEN _synset_to_specs(synonyms, i + 1, specs, seen_lu_ids)
         ELSE IF c_lu_id \notin seen_lu_ids
         THEN _synset_to_specs(synonyms, i + 1, Append(specs, _lu_to_spec(c_lu_id)),
                               seen_lu_ids \cup {c_lu_id})
         ELSE _synset_to_specs(synonyms, i + 1, specs, seen_lu_ids)

\* Cornet._get_synset_formatter applied to a synset element; format is a
\* handled one, and the element stands for itself and for its serialisation
FormatSynset(format, sy) ==
    IF format = "spec" THEN _synset_to_specs(parse.cdb_syn[sy].synonyms, 1, <<>>, {})
    ELSE sy

\* lu.get("c_sy_id", "").split(","): a unit without the attribute gives [""]
SynsetIdsOf(lu) == IF c_lu_id2lu[lu].c_sy_id = <<>> THEN <<"">> ELSE c_lu_id2lu[lu].c_sy_id

\* the inner loop of get_synsets from id j of a unit
RECURSIVE SynsetsOfUnit(_, _, _)
SynsetsOfUnit(ids, j, synsets) ==
    IF j > Len(ids) THEN synsets
    ELSE IF ids[j] \notin DOMAIN c_sy_id2synset
    THEN SynsetsOfUnit(ids, j + 1, synsets)
    ELSE SynsetsOfUnit(ids, j + 1, Append(synsets, c_sy_id2synset[ids[j]]))

\* the outer loop of get_synsets from unit i of the bucket
RECURSIVE SynsetsLoop(_, _, _, _, _)
SynsetsLoop(bucket, i, cat, sense, synsets) ==
    IF i > Len(bucket) THEN synsets
    ELSE IF _lu_has_cat(bucket[i], cat) /\ _lu_has_sense(bucket[i], sense)
    THEN SynsetsLoop(bucket, i + 1, cat, sense,
                     SynsetsOfUnit(SynsetIdsOf(bucket[i]), 1, synsets))
    ELSE SynsetsLoop(bucket, i + 1, cat, sense, synsets)

\* the specifications and formats of the get_synsets calls
SynsetArgs == {UnitSpecA, UnitSpecA1, UnitSpecB, UnitSpecX} \X {"spec", "raw", "html"}

\* get_synsets(spec, format) on the database parse_cdb has returned
GetSynsets ==
    /\ pc = "done"
    /\ call.op = "parse_cdb"
    /\ parse.at = "returned"
    /\ \E a \in SynsetArgs :
         /\ call' = [op |-> "get_synsets", spec |-> a[1], format |-> a[2]]
         /\ IF a[2] \notin HandledFormats
            THEN ret' = Raised("ValueError") /\ loc' = loc
            ELSE LET f       == _split_unit_spec(a[1])
                     bucket  == IF f[1] \in DOMAIN form2lu THEN form2lu[f[1]] ELSE <<>>
                     synsets == SynsetsLoop(bucket, 1, f[2], f[3], <<>>)
                 IN  /\ loc' = [synsets |-> synsets]
                     /\ ret' = Ok([p \in DOMAIN synsets |-> FormatSynset(a[2], synsets[p])])
    /\ UNCHANGED <<db, pc, bsp, tc>>

NextSynsets == NextBuild \/ GetSynsets

SpecSynsets == InitBuild /\ [][NextSynsets]_vars

SynsetsDone == pc = "done" /\ call.op = "get_synsets" /\ call.format \in HandledFormats

\* the units of the database the specification of the call matches
Matching == Range(get_lex_units(call.spec))

\* the synset elements the database knows under an id
Registered == Range(c_sy_id2synset)

\* C19: get_synsets returns the synsets with at least one matching unit among
\* their members, each synset once, a synset discovered earlier through the
\* matching units' back-references before one discovered later; in format
\* spec each member that is a unit is listed once in its synset; a matching
\* unit that is in no synset adds nothing.
C19_SynsetsOnce ==
    SynsetsDone =>
        /\ ret.status = "ok"
        /\ \A p, q \in DOMAIN loc.synsets : p # q => loc.synsets[p] # loc.synsets[q]
        /\ Range(loc.synsets) =
              {sy \in Registered : Members(parse.cdb_syn[sy]) \cap Matching # {}}
        /\ Len(ret.value) = Len(loc.synsets)
        /\ \A p \in DOMAIN ret.value :
              IF call.format = "spec"
              THEN /\ Range(ret.value[p]) =
                         {_lu_to_spec(u) : u \in Members(parse.cdb_syn[loc.synsets[p]])}
                   /\ Len(ret.value[p]) = Cardinality(Members(parse.cdb_syn[loc.synsets[p]]))
              ELSE ret.value[p] = loc.synsets[p]

-----------------------------------------------------------------------------
(* SimCornet._p: the probability of a lexical unit from its counts.  An       *)
(* integer attribute is <<n>> and an absent one <<>>; a float is the fraction *)
(* <<numerator, denominator>> in lowest terms and None is <<>>.               *)

MaxCount == 2

RECURSIVE Gcd(_, _)
Gcd(a, b) == IF b = 0 THEN a ELSE Gcd(b, a % b)

\* lu_count / float(count_total), count_total not zero
Quotient(lu_count, count_total) ==
    LET g == Gcd(lu_count, count_total)
    IN  <<lu_count \div g, count_total \div g>>

\* SimCornet._get_lu_count: None without a form element or without the attribute
_get_lu_count(lu, subcount) ==
    IF ~lu.has_form THEN <<>>
    ELSE IF subcount THEN lu.subcount ELSE lu.count

\* Cornet._get_lu_cat: "" without a form element
_get_lu_cat(lu) == IF lu.has_form THEN lu.cat ELSE ""

\* lines 586-592: self._cat2counts[cat] for the category of the unit, or for
\* "all" when the unit has none or no category totals are asked for
CountTotal(cat2counts, lu, cat_totals) ==
    LET cat == IF cat_totals
               THEN (IF _get_lu_cat(lu) # "" THEN _get_lu_cat(lu) ELSE "all")
               ELSE "all"
    IN  IF cat \in DOMAIN cat2counts THEN Ok(cat2counts[cat]) ELSE Raised("KeyError")

\* SimCornet._p(lu, subcount, smooth, cat_totals)
_p(cat2counts, lu, subcount, smooth, cat_totals) ==
    LET count == _get_lu_count(lu, subcount) IN
    IF count = <<>> THEN Ok(<<>>)
    ELSE LET lu_count    == IF count[1] = 0 /\ smooth THEN 1 ELSE count[1]
             count_total == CountTotal(cat2counts, lu, cat_totals)
         IN  IF count_total.status # "ok" THEN count_total
             ELSE IF count_total.value = 0 THEN Raised("ZeroDivisionError")
             ELSE Ok(Quotient(lu_count, count_total.value))

\* the call of _p returns
Probability ==
    /\ pc = "call"
    /\ call.op = "_p"
    /\ ret' = _p(parse.cat2counts, c_lu_id2lu[call.lu], call.subcount, call.smooth,
                 call.cat_totals)
    /\ pc' = "done"
    /\ UNCHANGED <<db, call, loc, bsp, tc>>

\* the count attributes a form element may have
CountAttribs == {<<>>} \cup {<<n>> : n \in 0..MaxCount}

\* the units of a cdb_lu file with counts
CountedUnits ==
    [c_lu_id : {"u1"}, has_form : BOOLEAN, form : {"a"},
     cat : {"", "noun", "verb", "adj", "adv"}, sense : {"1"},
     count : CountAttribs, subcount : CountAttribs, c_sy_id : {<<>>}]

\* _parse_count_totals: the count-total attributes of the document root
CountTotals ==
    { [cat \in {"noun", "verb", "adj", "other", "all"} |->
          CASE cat = "noun" -> 4 [] cat = "verb" -> 5 [] cat = "adj" -> 6
            [] cat = "other" -> o [] cat = "all" -> 15 + o] : o \in {0, 7} }

InitProb ==
    /\ \E lu \in CountedUnits :
         /\ c_lu_id2lu = (lu.c_lu_id :> lu)
         /\ form2lu = IF lu.has_form THEN (lu.form :> <<lu.c_lu_id>>) ELSE <<>>
         /\ graph = [nodes |-> {lu.c_lu_id}, edges |-> <<>>]
    /\ c_sy_id2synset = <<>>
    /\ _max_depth = _default_max_depth
    /\ \E t \in CountTotals : parse = [at |-> "returned", cat2counts |-> t]
    /\ \E subcount, smooth, cat_totals \in BOOLEAN :
         call = [op |-> "_p", lu |-> "u1", subcount |-> subcount, smooth |-> smooth,
                 cat_totals |-> cat_totals]
    /\ pc = "call"
    /\ loc = <<>>
    /\ bsp = NoBsp
    /\ tc = NoTc
    /\ ret = Running

NextProb == Probability

SpecProb == InitProb /\ [][NextProb]_vars

ProbDone == pc = "done" /\ call.op = "_p"

\* the (sub)count attribute the call reads
AskedCount ==
    LET lu == c_lu_id2lu[call.lu]
    IN  IF ~lu.has_form THEN <<>> ELSE IF call.subcount THEN lu.subcount ELSE lu.count

\* the total the probability is taken over
AskedTotal ==
    LET lu   == c_lu_id2lu[call.lu]
        cats == {"noun", "verb", "adj", "other"}
    IN  IF call.cat_totals /\ lu.has_form /\ lu.cat \in cats
        THEN parse.cat2counts[lu.cat] ELSE parse.cat2counts["all"]

\* C20: the probability of a unit is undefined when its (sub)count is absent
\* and otherwise count/total, a count of zero counted as 1 with smoothing;
\* total is the total of the unit's category when category totals are asked
\* for and that category has a total, and the grand total in every other
\* case, a unit with an empty or an untotalled category included, and no
\* error is raised.
C20_Probability ==
    ProbDone =>
        IF AskedCount = <<>> THEN ret = Ok(<<>>)
        ELSE LET n == IF AskedCount[1] = 0 /\ call.smooth THEN 1 ELSE AskedCount[1]
             IN  AskedTotal # 0 =>
                    /\ ret.status = "ok"
                    /\ ret.value[1] * AskedTotal = n * ret.value[2]

-----------------------------------------------------------------------------
(* SimCornet._IC: the information content of a lexical unit.  Counts and    *)
(* totals are powers of two, so that -log(p, 2) is the integer k with       *)
(* p = 1 / 2^k; a float that is an integer is <<k>> and None is <<>>.       *)

MaxLog == 2

RECURSIVE Pow2(_)
Pow2(k) == IF k = 0 THEN 1 ELSE 2 * Pow2(k - 1)

\* math.log(n, 2) for a power of two
RECURSIVE Log2(_)
Log2(n) == IF n <= 1 THEN 0 ELSE 1 + Log2(n \div 2)

\* what math.log(0.0, base) raises: OverflowError (math range error) with the
\* C library of the interpreters before 2.6, ValueError (math domain error)
\* from 2.6 on
LogZeroErrors == {"OverflowError", "ValueError"}

\* SimCornet._IC(lu, subcount, smooth, cat_totals); log(None) raises the
\* TypeError that is caught, log(0.0) raises log_zero, of which only
\* OverflowError is caught
_IC(cat2counts, lu, subcount, smooth, cat_totals, log_zero) ==
    LET p == _p(cat2counts, lu, subcount, smooth, cat_totals) IN
    IF p.status # "ok" THEN p
    ELSE IF p.value = <<>> THEN Ok(<<>>)
    ELSE IF p.value[1] = 0
    THEN (IF log_zero = "OverflowError" THEN Ok(<<>>) ELSE Raised(log_zero))
    ELSE Ok(<<Log2(p.value[2]) - Log2(p.value[1])>>)

\* the call of _IC returns
InfoContent ==
    /\ pc = "call"
    /\ call.op = "_IC"
    /\ \E log_zero \in LogZeroErrors :
         ret' = _IC(parse.cat2counts, c_lu_id2lu[call.lu], call.subcount, call.smooth,
                    call.cat_totals, log_zero)
    /\ pc' = "done"
    /\ UNCHANGED <<db, call, loc, bsp, tc>>

\* count attributes that are zero or a power of two up to 2^MaxLog
PowerAttribs == {<<>>, <<0>>} \cup {<<Pow2(k)>> : k \in 0..MaxLog}

\* units with such counts, with and without a category
PowerUnits ==
    [c_lu_id : {"u1"}, has_form : BOOLEAN, form : {"a"}, cat : {"", "noun", "adv"},
     sense : {"1"}, count : PowerAttribs, subcount : PowerAttribs, c_sy_id : {<<>>}]

\* count totals that are powers of two: the nouns are half of all words
PowerTotals ==
    [cat \in {"noun", "verb", "adj", "other", "all"} |->
        IF cat = "all" THEN Pow2(MaxLog + 1) ELSE Pow2(MaxLog)]

InitIC ==
    /\ \E lu \in PowerUnits :
         /\ c_lu_id2lu = (lu.c_lu_id :> lu)
         /\ form2lu = IF lu.has_form THEN (lu.form :> <<lu.c_lu_id>>) ELSE <<>>
         /\ graph = [nodes |-> {lu.c_lu_id}, edges |-> <<>>]
    /\ c_sy_id2synset = <<>>
    /\ _max_depth = _default_max_depth
    /\ parse = [at |-> "returned", cat2counts |-> PowerTotals]
    /\ \E subcount, smooth, cat_totals \in BOOLEAN :
         call = [op |-> "_IC", lu |-> "u1", subcount |-> subcount, smooth |-> smooth,
                 cat_totals |-> cat_totals]
    /\ pc = "call"
    /\ loc = <<>>
    /\ bsp = NoBsp
    /\ tc = NoTc
    /\ ret = Running

NextIC == InfoContent

SpecIC == InitIC /\ [][NextIC]_vars

IcDone == pc = "done" /\ call.op = "_IC"

\* C21: the information content is None, and no error is raised, when the
\* unit has no (sub)count or a count of zero without smoothing; in every
\* other case it is the k with count * 2^k = total, that is -log2 of the
\* probability, and so a number, never None.
C21_InfoContent ==
    IcDone =>
        /\ ret.status = "ok"
        /\ IF AskedCount = <<>> \/ (AskedCount[1] = 0 /\ ~call.smooth)
           THEN ret.value = <<>>
           ELSE LET n == IF AskedCount[1] = 0 THEN 1 ELSE AskedCount[1]
                IN  /\ Len(ret.value) = 1
                    /\ n * Pow2(ret.value[1]) = AskedTotal

-----------------------------------------------------------------------------
(* SimCornet: the similarity measures.  A measure calls                      *)
(* least_common_subsumers; while that call runs, call is its frame and       *)
(* call.outer the frame of the measure that waits for it.                    *)

\* the cdb_lu elements of a file with counts: the units of LexUnitRecords
\* with a subcount each
CountedRecords(subcounts) ==
    [i \in DOMAIN LexUnitRecords |->
        [c_lu_id |-> LexUnitRecords[i].c_lu_id, has_form |-> TRUE,
         form |-> LexUnitRecords[i].form, cat |-> LexUnitRecords[i].cat,
         sense |-> LexUnitRecords[i].sense, count |-> <<0>>,
         subcount |-> subcounts[i], c_sy_id |-> <<>>]]

\* the subcount attributes of the four units: zero, one or the total for the
\* first three, none or the total for the last
SubcountLists ==
    {<<s1, s2, s3, s4>> : s1 \in {<<0>>, <<1>>, <<Pow2(MaxLog)>>},
                          s2 \in {<<0>>, <<1>>, <<Pow2(MaxLog)>>},
                          s3 \in {<<0>>, <<1>>, <<Pow2(MaxLog)>>},
                          s4 \in {<<>>, <<Pow2(MaxLog)>>}}

\* the graphs of the measures: at most MaxEdges HAS_HYPERONYM edges between
\* the units
HyperonymGraphs ==
    {[nodes |-> Units, edges |-> SetToSeq(E)] :
        E \in SubsetsUpTo({e \in [from : Units, to : Units, relation : {"HAS_HYPERONYM"}] :
                              e.from # e.to}, MaxEdges)}

\* the list of _IC(lcs, True, smooth, cat_totals) for the units of a list;
\* an exception of _IC ends the list comprehension
RECURSIVE IcList(_, _, _, _, _, _)
IcList(lus, i, smooth, cat_totals, log_zero, acc) ==
    IF i > Len(lus) THEN Ok(acc)
    ELSE LET ic == _IC(parse.cat2counts, c_lu_id2lu[lus[i]], TRUE, smooth, cat_totals,
                       log_zero)
         IN  IF ic.status # "ok" THEN ic
             ELSE IcList(lus, i + 1, smooth, cat_totals, log_zero, Append(acc, ic.value))

\* max() of a list of floats and None: None is smaller than every number
MaxOf(values) ==
    LET numbers == {values[i][1] : i \in {j \in DOMAIN values : values[j] # <<>>}}
    IN  IF numbers = {} THEN <<>> ELSE <<Max(numbers)>>

\* a measure that is 0.0 whenever it has no least common subsumer to look at
ResnikOf_ZeroWithoutUnits(resolved, lcs_ics) ==
    IF lcs_ics = <<>> THEN <<0>> ELSE MaxOf(lcs_ics)

\* resnik_sim, lines 291-312: max_sim from the information contents of the
\* least common subsumers; resolved: both specifications have units
ResnikOf(resolved, lcs_ics) ==
    IF ~resolved THEN <<>>
    ELSE IF lcs_ics # <<>> THEN MaxOf(lcs_ics)
    ELSE <<0>>

\* resnik_sim up to its call of least_common_subsumers
ResnikBegin ==
    /\ pc = "call"
    /\ call.op = "resnik_sim"
    /\ IF get_lex_units(call.spec1) # <<>> /\ get_lex_units(call.spec2) # <<>>
       THEN /\ call' = [op |-> "least_common_subsumers", spec1 |-> call.spec1,
                        spec2 |-> call.spec2, rel_name |-> "HAS_HYPERONYM",
                        format |-> "raw", outer |-> call]
            /\ UNCHANGED <<pc, ret>>
       ELSE /\ ret' = Ok(ResnikOf(FALSE, <<>>))
            /\ pc' = "done"
            /\ call' = call
    /\ UNCHANGED <<db, loc, bsp, tc>>

\* least_common_subsumers has returned to resnik_sim
ResnikReturn ==
    /\ pc = "done"
    /\ call.op = "least_common_subsumers"
    /\ "outer" \in DOMAIN call
    /\ call.outer.op = "resnik_sim"
    /\ LET lcs_ics == IcList(ret.value, 1, call.outer.smooth, call.outer.cat_totals,
                             call.outer.log_zero, <<>>)
       IN  ret' = IF lcs_ics.status # "ok" THEN lcs_ics
                  ELSE Ok(ResnikOf(TRUE, lcs_ics.value))
    /\ call' = call.outer
    /\ loc' = [lcs |-> ret.value]
    /\ UNCHANGED <<db, pc, bsp, tc>>

\* the specifications of the calls: two units and one, a unit and itself,
\* one that matches nothing
MeasureSpecs ==
    { <<UnitSpecA, UnitSpecB>>, <<UnitSpecB, UnitSpecB>>,
      <<UnitSpecX, UnitSpecB>>, <<UnitSpecX, UnitSpecX>> }

\* the count totals of a file whose counted words are all nouns
MeasureTotals ==
    [cat \in {"noun", "verb", "adj", "other", "all"} |->
        IF cat \in {"noun", "all"} THEN Pow2(MaxLog) ELSE 0]

\* the subcounts that cornetto-add-sub-counts.py writes: the count of a word
\* itself plus the counts of all words that it subsumes, so that a hyperonym
\* has at least the subcount of its hyponym
SubcountsSubsume ==
    \A u \in Units : \A s \in WithinWalk({u}, NumUnits, "HAS_HYPERONYM") :
        LET from == c_lu_id2lu[u].subcount
            to == c_lu_id2lu[s].subcount
        IN  (from # <<>> /\ to # <<>>) => to[1] >= from[1]

\* the database of parse_cdb_with_counts and a call of one of the measures ops
InitMeasure(ops) ==
    /\ \E subcounts \in SubcountLists :
         LET st == ParseLexUnits(CountedRecords(subcounts), FALSE) IN
         /\ form2lu = st.form2lu
         /\ c_lu_id2lu = st.c_lu_id2lu
    /\ graph \in HyperonymGraphs
    /\ SubcountsSubsume
    /\ c_sy_id2synset = <<>>
    /\ _max_depth = _default_max_depth
    /\ parse = [at |-> "returned", cat2counts |-> MeasureTotals]
    /\ \E op \in ops, a \in MeasureSpecs, smooth \in BOOLEAN, log_zero \in LogZeroErrors :
         call = [op |-> op, spec1 |-> a[1], spec2 |-> a[2], smooth |-> smooth,
                 cat_totals |-> FALSE, log_zero |-> log_zero]
    /\ pc = "call"
    /\ loc = <<>>
    /\ bsp = NoBsp
    /\ tc = NoTc
    /\ ret = Running

InitResnik == InitMeasure({"resnik_sim"})

NextResnik == ResnikBegin \/ NextSubsumers \/ ResnikReturn

SpecResnik == InitResnik /\ [][NextResnik]_vars

ResnikDone == pc = "done" /\ call.op = "resnik_sim"

\* the units a specification resolves to
Resolved(spec) == Range(get_lex_units(spec))

\* the units that a walk of zero or more HAS_HYPERONYM edges reaches from u
Subsumers(u) == WithinWalk({u}, NumUnits, "HAS_HYPERONYM")

\* C22: resnik_sim is 0.0 when both specifications resolve to a unit and no
\* pair of resolved units has a common subsumer, and None when neither
\* specification resolves to a unit.
C22_ResnikZeroOrNone ==
    ResnikDone =>
        /\ (/\ Resolved(call.spec1) # {} /\ Resolved(call.spec2) # {}
            /\ \A u1 \in Resolved(call.spec1), u2 \in Resolved(call.spec2) :
                  Subsumers(u1) \cap Subsumers(u2) = {})
              => ret = Ok(<<0>>)
        /\ (Resolved(call.spec1) = {} /\ Resolved(call.spec2) = {}) => ret = Ok(<<>>)

\* both outcomes happen: 0.0 for two units without common subsumer in a graph
\* with edges
C22_Witness ==
    /\ ResnikDone
    /\ ret = Ok(<<0>>)
    /\ Resolved(call.spec1) = {"u1", "u2"}
    /\ Len(graph.edges) >= 2
    /\ loc = [lcs |-> <<>>]


\* the information content of unit u from its subcount and the grand total:
\* the k with subcount * 2^k = total, <<>> where it is undefined
SubsumedIC(u) ==
    LET sc == c_lu_id2lu[u].subcount IN
    IF sc = <<>> \/ (sc[1] = 0 /\ ~call.smooth) THEN <<>>
    ELSE LET n == IF sc[1] = 0 THEN 1 ELSE sc[1]
         IN  <<CHOOSE k \in 0..MaxLog : n * Pow2(k) = parse.cat2counts["all"]>>

\* the length of the path from u1 over subsumer s to u2
PairLength(u1, u2, s) == Dist({u1}, s, "HAS_HYPERONYM") + Dist({u2}, s, "HAS_HYPERONYM")

\* the least common subsumers of the pair (u1, u2)
PairLcs(u1, u2) ==
    LET common == Subsumers(u1) \cap Subsumers(u2)
    IN  {s \in common : \A t \in common : PairLength(u1, u2, s) <= PairLength(u1, u2, t)}

\* the least common subsumers of every pair of resolved units
AllPairLcs ==
    UNION {PairLcs(u1, u2) : u1 \in Resolved(call.spec1), u2 \in Resolved(call.spec2)}

\* C23: when a common subsumer exists, resnik_sim is the maximum of the
\* information contents (from subcounts) of the least common subsumers of
\* all pairs of a unit of the first and a unit of the second specification,
\* also of a pair whose path is longer than that of another pair.
C23_ResnikMaxOverPairs ==
    (ResnikDone /\ AllPairLcs # {}) =>
        LET ics == {SubsumedIC(s)[1] : s \in {t \in AllPairLcs : SubsumedIC(t) # <<>>}}
        IN  /\ ret.status = "ok"
            /\ ret.value = IF ics = {} THEN <<>> ELSE <<Max(ics)>>

-----------------------------------------------------------------------------
(* jiang_conrath_dist, jiang_conrath_sim and lin_sim: the loops over the    *)
(* pairs of units.  The frame of a measure holds its locals: lus1, lus2,    *)
(* the positions i and j of lu1 and lu2, and acc, which is min_dist or      *)
(* max_sim.  A distance is <<k>>, a quotient <<n, d>> in lowest terms.      *)

PairMeasures == {"jiang_conrath_dist", "lin_sim"}

\* the measure resolves its specifications; lines 373-376 and 511-514
MeasureBegin ==
    /\ pc = "call"
    /\ call.op \in PairMeasures
    /\ call' = [op |-> call.op, spec1 |-> call.spec1, spec2 |-> call.spec2,
                smooth |-> call.smooth, cat_totals |-> call.cat_totals,
                log_zero |-> call.log_zero,
                lus1 |-> get_lex_units(call.spec1), lus2 |-> get_lex_units(call.spec2),
                i |-> 1, j |-> 1, ic1 |-> <<>>, ic2 |-> <<>>, acc |-> <<>>]
    /\ pc' = "pairs"
    /\ UNCHANGED <<db, loc, bsp, tc, ret>>

\* if min_dist is None or new_dist < min_dist: min_dist = new_dist
MinDist(min_dist, new_dist) ==
    IF min_dist = <<>> \/ new_dist < min_dist[1] THEN <<new_dist>> ELSE min_dist

\* max(max_sim, new_sim): None is smaller than every float
MaxSim(max_sim, new_sim) ==
    IF max_sim = <<>> THEN new_sim
    ELSE IF new_sim[1] * max_sim[2] > max_sim[1] * new_sim[2] THEN new_sim
    ELSE max_sim

\* the loop over the least common subsumers of a pair from position k, and
\* the statements after it; lines 393-416 of jiang_conrath_dist
RECURSIVE JcLoop(_, _, _, _)
JcLoop(lcs, k, frame, min_dist) ==
    IF k > Len(lcs) THEN Ok(MinDist(min_dist, frame.ic1[1] + frame.ic2[1]))
    ELSE LET lcs_ic == _IC(parse.cat2counts, c_lu_id2lu[lcs[k]], TRUE, frame.smooth,
                           frame.cat_totals, frame.log_zero)
         IN  IF lcs_ic.status # "ok" THEN lcs_ic
             ELSE IF lcs_ic.value = <<>> THEN JcLoop(lcs, k + 1, frame, min_dist)
             ELSE JcLoop(lcs, k + 1, frame,
                         MinDist(min_dist,
                                 frame.ic1[1] + frame.ic2[1] - 2 * lcs_ic.value[1]))

\* the same loop of lin_sim, lines 528-546; float(ic1 + ic2) may be zero
RECURSIVE LinLoop(_, _, _, _)
LinLoop(lcs, k, frame, max_sim) ==
    IF k > Len(lcs) THEN Ok(MaxSim(max_sim, <<0, 1>>))
    ELSE LET lcs_ic == _IC(parse.cat2counts, c_lu_id2lu[lcs[k]], TRUE, frame.smooth,
                           frame.cat_totals, frame.log_zero)
         IN  IF lcs_ic.status # "ok" THEN lcs_ic
             ELSE IF lcs_ic.value = <<>> THEN LinLoop(lcs, k + 1, frame, max_sim)
             ELSE IF frame.ic1[1] + frame.ic2[1] = 0 THEN Raised("ZeroDivisionError")
             ELSE LinLoop(lcs, k + 1, frame,
                          MaxSim(max_sim, Quotient(2 * lcs_ic.value[1],
                                                   frame.ic1[1] + frame.ic2[1])))

\* jiang_conrath_sim, lines 452-457: 1 / (1 + sim) of a distance that is not None
DistToSim(sim) ==
    IF sim = <<>> THEN Ok(<<>>)
    ELSE IF 1 + sim[1] = 0 THEN Raised("ZeroDivisionError")
    ELSE IF 1 + sim[1] > 0 THEN Ok(<<1, 1 + sim[1]>>)
    ELSE Ok(<<-1, -(1 + sim[1])>>)

\* the loops over lu1 and lu2 up to the next call of least_common_subsumers
\* or to the return of the measure
PairStep ==
    /\ pc = "pairs"
    /\ call.op \in PairMeasures
    /\ IF call.i > Len(call.lus1)
       THEN /\ ret' = Ok(call.acc)
            /\ pc' = "done"
            /\ call' = call
       ELSE LET ic1 == _IC(parse.cat2counts, c_lu_id2lu[call.lus1[call.i]], TRUE,
                           call.smooth, call.cat_totals, call.log_zero)
            IN  IF ic1.status # "ok"
                THEN ret' = ic1 /\ pc' = "done" /\ call' = call
                ELSE IF ic1.value = <<>> \/ call.j > Len(call.lus2)
                THEN /\ call' = [call EXCEPT !.i = @ + 1, !.j = 1]
                     /\ UNCHANGED <<pc, ret>>
                ELSE LET ic2 == _IC(parse.cat2counts, c_lu_id2lu[call.lus2[call.j]], TRUE,
                                    call.smooth, call.cat_totals, call.log_zero)
                     IN  IF ic2.status # "ok"
                         THEN ret' = ic2 /\ pc' = "done" /\ call' = call
                         ELSE IF ic2.value = <<>>
                         THEN /\ call' = [call EXCEPT !.j = @ + 1]
                              /\ UNCHANGED <<pc, ret>>
                         ELSE /\ call' = [op |-> "least_common_subsumers",
                                          spec1 |-> _lu_to_spec(call.lus1[call.i]),
                                          spec2 |-> _lu_to_spec(call.lus2[call.j]),
                                          rel_name |-> "HAS_HYPERONYM", format |-> "raw",
                                          outer |-> [call EXCEPT !.ic1 = ic1.value,
                                                                 !.ic2 = ic2.value]]
                              /\ pc' = "call"
                              /\ ret' = ret
    /\ UNCHANGED <<db, loc, bsp, tc>>

\* least_common_subsumers has returned to the measure: the loop over its
\* result, then the next lu2
PairReturn ==
    /\ pc = "done"
    /\ call.op = "least_common_subsumers"
    /\ "outer" \in DOMAIN call
    /\ call.outer.op \in PairMeasures
    /\ LET r == IF call.outer.op = "lin_sim"
                THEN LinLoop(ret.value, 1, call.outer, call.outer.acc)
                ELSE JcLoop(ret.value, 1, call.outer, call.outer.acc)
       IN  IF r.status # "ok"
           THEN /\ ret' = r
                /\ call' = call.outer
                /\ pc' = "done"
           ELSE /\ call' = [call.outer EXCEPT !.acc = r.value, !.j = @ + 1]
                /\ pc' = "pairs"
                /\ ret' = Running
    /\ loc' = <<>>
    /\ tc' = NoTc
    /\ UNCHANGED <<db, bsp>>

NextPairs == MeasureBegin \/ PairStep \/ NextSubsumers \/ PairReturn

\* jiang_conrath_sim, whose call of jiang_conrath_dist with its own arguments
\* has returned; an exception of the distance passes through
JcSimReturn ==
    /\ pc = "done"
    /\ call.op = "jiang_conrath_dist"
    /\ call' = [call EXCEPT !.op = "jiang_conrath_sim"]
    /\ ret' = IF ret.status = "ok" THEN DistToSim(ret.value) ELSE ret
    /\ loc' = [sim |-> ret]
    /\ UNCHANGED <<db, pc, bsp, tc>>

InitJc == InitMeasure({"jiang_conrath_dist"})

NextJc == NextPairs \/ JcSimReturn

SpecJc == InitJc /\ [][NextJc]_vars

InitLin == InitMeasure({"lin_sim"})

SpecLin == InitLin /\ [][NextPairs]_vars


\* the pairs of resolved units whose information contents are both defined
DefinedPairs ==
    {p \in Resolved(call.spec1) \X Resolved(call.spec2) :
        SubsumedIC(p[1]) # <<>> /\ SubsumedIC(p[2]) # <<>>}

\* the least common subsumers of a pair that have an information content
DefinedLcs(p) == {s \in PairLcs(p[1], p[2]) : SubsumedIC(s) # <<>>}

\* the distance of a pair: the least IC(u1) + IC(u2) - 2 * IC(lcs), and
\* IC(u1) + IC(u2) without a least common subsumer
PairDist(p) ==
    LET sum == SubsumedIC(p[1])[1] + SubsumedIC(p[2])[1]
    IN  IF DefinedLcs(p) = {} THEN sum
        ELSE Min({sum - 2 * SubsumedIC(s)[1] : s \in DefinedLcs(p)})

\* C24: jiang_conrath_dist is None exactly when no pair of resolved units has
\* both information contents defined, and otherwise the least distance of
\* those pairs; jiang_conrath_sim is 1 / (1 + distance), and None exactly
\* when the distance is None.
C24_JiangConrath ==
    /\ (pc = "done" /\ call.op = "jiang_conrath_dist") =>
          /\ ret.status = "ok"
          /\ ret.value = IF DefinedPairs = {} THEN <<>>
                         ELSE <<Min({PairDist(p) : p \in DefinedPairs})>>
    /\ (pc = "done" /\ call.op = "jiang_conrath_sim") =>
          /\ ret.status = "ok"
          /\ loc.sim.status = "ok"
          /\ (ret.value = <<>>) <=> (loc.sim.value = <<>>)
          /\ loc.sim.value # <<>> =>
                /\ Len(ret.value) = 2
                /\ ret.value[1] * (1 + loc.sim.value[1]) = ret.value[2]

\* the numerators of 2 * IC(lcs) / (IC(u1) + IC(u2)) over a common denominator
LinCandidates(D) ==
    {0} \cup UNION { { (2 * SubsumedIC(s)[1] * D) \div (SubsumedIC(p[1])[1] + SubsumedIC(p[2])[1])
                         : s \in DefinedLcs(p) }
                     : p \in {q \in DefinedPairs :
                                 SubsumedIC(q[1])[1] + SubsumedIC(q[2])[1] # 0} }

\* a common multiple of the sums of two information contents
LinDenominator == Pow2(MaxLog + 2) * 3 * 5 * 7

\* C25: lin_sim returns for all specifications, without an exception: None
\* exactly when no pair of resolved units has both information contents
\* defined, and otherwise the greatest of 0.0 and the quotients
\* 2 * IC(lcs) / (IC(u1) + IC(u2)) of those pairs, units with information
\* content 0 included.
C25_LinSim ==
    (pc = "done" /\ call.op = "lin_sim") =>
        /\ ret.status = "ok"
        /\ (ret.value = <<>>) <=> (DefinedPairs = {})
        /\ DefinedPairs # {} =>
              /\ Len(ret.value) = 2
              /\ ret.value[1] * LinDenominator
                    = Max(LinCandidates(LinDenominator)) * ret.value[2]


-----------------------------------------------------------------------------
(* Queries of several callers on one Cornet instance.  The locals of a      *)
(* query are the frame call, pc, loc, bsp, tc and ret; the frame of the     *)
(* caller that is not running is kept in the field "other" of call, which    *)
(* no query operation reads or writes.                                       *)

MaxFrameEdges == 2

\* the graphs of the interleaved queries
FrameGraphs == {g \in BuiltGraphs : Len(g.edges) <= MaxFrameEdges}

\* the query calls of a caller
FrameCalls ==
    { [op |-> "test_lex_units_relation", from_spec |-> UnitSpecA,
       rel_spec |-> <<"has_hyponym", "+">>, to_spec |-> UnitSpecC, format |-> "spec"],
      [op |-> "all_common_subsumers", spec1 |-> UnitSpecA, spec2 |-> UnitSpecC,
       rel_name |-> "has_hyponym", format |-> "spec"],
      [op |-> "least_common_subsumers", spec1 |-> UnitSpecA, spec2 |-> UnitSpecB,
       rel_name |-> "", format |-> "spec"],
      [op |-> "get_related_lex_units", lu_spec |-> UnitSpecA,
       rel_spec |-> <<"2">>, format |-> "spec"],
      [op |-> "get_lex_units", spec |-> UnitSpecA, format |-> "spec"] }

\* the locals of the running query
CallerFrame ==
    [call |-> [f \in DOMAIN call \ {"other"} |-> call[f]],
     pc |-> pc, loc |-> loc, bsp |-> bsp, tc |-> tc, ret |-> ret]

\* the other caller runs: its frame replaces the frame of the running query
Switch ==
    /\ "other" \in DOMAIN call
    /\ call' = call.other.call @@ ("other" :> CallerFrame)
    /\ pc' = call.other.pc
    /\ loc' = call.other.loc
    /\ bsp' = call.other.bsp
    /\ tc' = call.other.tc
    /\ ret' = call.other.ret
    /\ UNCHANGED db

InitFrame ==
    /\ InitBuilt
    /\ graph \in FrameGraphs
    /\ \E c1 \in FrameCalls, c2 \in FrameCalls :
         call = c1 @@ ("other" :> [call |-> c2, pc |-> "call", loc |-> <<>>,
                                   bsp |-> NoBsp, tc |-> NoTc, ret |-> Running])

NextFrame ==
    \/ NextPath \/ NextSubsumers \/ NextLookup
    \/ RelatedBegin \/ RelatedSeed \/ SearchStep \/ SearchReturn \/ RelatedReturn
    \/ Switch

\* the databases and calls of the other query operations: get_synsets after
\* parse_cdb, _p, _IC and the three measures
InitQueries ==
    \/ InitFrame
    \/ InitBuild
    \/ InitProb
    \/ InitIC
    \/ /\ InitMeasure({"resnik_sim", "jiang_conrath_dist", "lin_sim"})
       /\ Len(graph.edges) < MaxFrameEdges

NextQueries ==
    \/ NextFrame
    \/ NextSynsets
    \/ Probability \/ InfoContent
    \/ ResnikBegin \/ ResnikReturn
    \/ MeasureBegin \/ PairStep \/ PairReturn \/ JcSimReturn

SpecFrame == InitQueries /\ [][NextQueries]_vars

\* the result of the running query, as a query that runs alone returns it
ResultAsAlone ==
    /\ C1_EmptyIffNoWalk /\ C2_PathIsWalk /\ C3_PathIsShortest
    /\ C4_ClosureDistances
    /\ C5_AllCommonSubsumers /\ C6_LeastCommonSubsumers
    /\ C7_TreeIsSimpleWalks
    /\ LookupDone => /\ ret.status = "ok"
                     /\ loc.lus = get_lex_units(call.spec)

\* C26: once the database is built, no step of a query (unit lookup, related
\* units, relation test, synsets, common subsumers, probabilities, information
\* content, similarities) changes the graph, the form index, the id index, the
\* synset index, the count totals or the maximal depth, and in every
\* interleaving of the steps of two callers each query returns what it
\* returns when it runs alone.
C26_QueriesChangeNothing ==
    /\ [][parse.at = "returned" => db' = db]_vars
    /\ []ResultAsAlone

\* a query has returned a result while the query of the other caller, of
\* another operation, waits in the middle of its search
C26_Witness ==
    /\ pc = "done" /\ ret.status = "ok" /\ ret.value # <<>>
    /\ "other" \in DOMAIN call
    /\ call.other.pc \notin {"call", "done"}
    /\ call.other.call.op # call.op
    /\ call.other.ret = Running


-----------------------------------------------------------------------------
(* Termination of the traversals.  A call runs on: the interpreter takes    *)
(* the next step of a call whenever it has one.                             *)

\* the calls of the three traversals on the graphs of at most MaxFrameEdges
\* edges, which hold the cycles of two units and the mutual SYNONYM edges
InitTerm ==
    /\ InitPath \/ InitSubsumers \/ InitTree
    /\ graph \in FrameGraphs

NextTerm == NextPath \/ NextSubsumers \/ NextTree

SpecTerm == InitTerm /\ [][NextTerm]_vars /\ WF_vars(NextTerm)

\* the units of a queue are different units
Distinct(queue) == \A p, q \in DOMAIN queue : p # q => queue[p] # queue[q]

\* a step that fills a queue puts a unit on it once, and only a unit that was
\* never on that queue: the queue of the closure holds no seed and no unit
\* with a distance, the forward fringe no unit with a predecessor entry, the
\* reverse fringe no unit with a successor entry
QueuedOnce ==
    /\ (pc = "call" /\ pc' = "while") =>
          Distinct(bsp'.forward_fringe) /\ Distinct(bsp'.reverse_fringe)
    /\ (pc = "while" /\ BspWhile) =>
          /\ Distinct(bsp'.forward_fringe)
          /\ Range(bsp'.forward_fringe) \cap DOMAIN bsp.pred = {}
    /\ pc = "reverse" =>
          /\ Distinct(bsp'.reverse_fringe)
          /\ Range(bsp'.reverse_fringe) \cap DOMAIN bsp.succ = {}
    /\ pc' \in {"closure1", "closure2"} =>
          /\ Distinct(tc'.queue)
          /\ pc' = pc => Range(tc'.queue) \cap (tc.lus \cup DOMAIN tc.successors) = {}

\* C27: every call of test_lex_units_relation, all_common_subsumers,
\* least_common_subsumers and get_related_lex_units returns, on every graph,
\* with cycles and mutual SYNONYM edges, for every specification, relation
\* name and depth; and no unit is put more than once on the queue of the
\* closure, on the forward fringe or on the reverse fringe.
C27_TraversalsTerminate ==
    /\ <>(pc = "done")
    /\ [][QueuedOnce]_vars

\* a closure has returned that went round a cycle of two units back to its seed
C27_Witness ==
    /\ pc = "done" /\ call.op \in SubsumerOps
    /\ \E u \in tc.lus, v \in DOMAIN tc.successors \ tc.lus :
          /\ u \in DOMAIN tc.successors
          /\ \E i, j \in DOMAIN graph.edges :
                /\ graph.edges[i].from = u /\ graph.edges[i].to = v
                /\ graph.edges[j].from = v /\ graph.edges[j].to = u


-----------------------------------------------------------------------------
(* CornetProxy and SimCornetProxy: the values that cross the XML-RPC         *)
(* boundary.  A value of the engine is an atom, a list or a dict:            *)
(* [t |-> "atom", v |-> a string], [t |-> "list", v |-> a sequence of        *)
(* values], [t |-> "dict", v |-> a function from key atoms to values].       *)

MaxNesting == 2
MaxItems == 2

Atom(a) == [t |-> "atom", v |-> a]
List(s) == [t |-> "list", v |-> s]
Dict(d) == [t |-> "dict", v |-> d]

\* the atoms of the results: None, False, a string, a number
Atoms == {Atom(None), Atom("False"), Atom("a:noun:1"), Atom("0.0")}

\* the keys of the dicts of the results: a formatted unit, and None
Keys == {"a:noun:1", None}

\* the values nested at most n levels deep
RECURSIVE ValuesUpTo(_)
ValuesUpTo(n) ==
    IF n = 0 THEN Atoms
    ELSE LET inner == ValuesUpTo(n - 1)
         IN  inner
             \cup {List(s) : s \in UNION {[1..k -> inner] : k \in 0..MaxItems}}
             \cup {Dict(d) : d \in UNION {[K -> inner] : K \in SUBSET Keys}}

\* _safe_return applied to the outermost value only
_safe_return_Outermost(value) ==
    IF value.t = "atom" /\ value.v = None THEN Atom("False") ELSE value

\* CornetProxy._safe_return, lines 511-524
RECURSIVE _safe_return(_)
_safe_return(value) ==
    IF value.t = "atom"
    THEN (IF value.v = None THEN Atom("False") ELSE value)
    ELSE IF value.t = "list"
    THEN List([i \in DOMAIN value.v |-> _safe_return(value.v[i])])
    ELSE LET key(k) == _safe_return(Atom(k)).v
         IN  Dict([k2 \in {key(k) : k \in DOMAIN value.v} |->
                      _safe_return(value.v[CHOOSE k \in DOMAIN value.v : key(k) = k2])])

\* class attribute _allowed_formats; the string "None" stands for None
_allowed_formats == {"spec", "xml", None}

\* CornetProxy._safe_format, lines 527-531
_safe_format(format) ==
    IF format \in _allowed_formats THEN Ok(format) ELSE Raised("ValueError")

\* the query methods of the proxies, which all return
\* self._safe_return(self._cornet.method(..., self._safe_format(format)))
ProxyMethods ==
    {"ask", "get_lex_units", "get_related_lex_units", "test_lex_units_relation",
     "get_synsets", "get_related_synsets", "get_lex_unit_by_id", "get_synset_by_id",
     "all_common_subsumers", "least_common_subsumers", "get_count", "get_probability",
     "get_info_content", "resnik_sim", "jiang_conrath_dist", "jiang_conrath_sim",
     "lin_sim"}

ProxyFormats == {"spec", "xml", None, "raw", "html"}

\* the argument self._safe_format(format) is evaluated before the method of
\* the engine is called
ProxySafeFormat ==
    /\ pc = "call"
    /\ call.op = "CornetProxy"
    /\ LET f == _safe_format(call.format) IN
       IF f.status # "ok"
       THEN ret' = f /\ pc' = "done"
       ELSE ret' = ret /\ pc' = "engine"
    /\ UNCHANGED <<db, call, loc, bsp, tc>>

\* the method of the engine returns a value
EngineReturns ==
    /\ pc = "engine"
    /\ \E value \in ValuesUpTo(MaxNesting) : loc' = [value |-> value]
    /\ pc' = "return"
    /\ UNCHANGED <<db, call, bsp, tc, ret>>

\* return self._safe_return(value)
ProxySafeReturn ==
    /\ pc = "return"
    /\ ret' = Ok(_safe_return(loc.value))
    /\ pc' = "done"
    /\ UNCHANGED <<db, call, loc, bsp, tc>>

InitProxy ==
    /\ InitBuilt
    /\ graph.edges = <<>>
    /\ \E method \in ProxyMethods, format \in ProxyFormats :
         call = [op |-> "CornetProxy", method |-> method, format |-> format]

NextProxy == ProxySafeFormat \/ EngineReturns \/ ProxySafeReturn

SpecProxy == InitProxy /\ [][NextProxy]_vars

\* whether None occurs in a value, as a value or as a key
RECURSIVE HasNone(_)
HasNone(value) ==
    IF value.t = "atom" THEN value.v = None
    ELSE IF value.t = "list" THEN \E i \in DOMAIN value.v : HasNone(value.v[i])
    ELSE \E k \in DOMAIN value.v : k = None \/ HasNone(value.v[k])

\* whether value w is value v with False in the place of every None
RECURSIVE FalseForNone(_, _)
FalseForNone(v, w) ==
    /\ w.t = v.t
    /\ IF v.t = "atom" THEN w.v = (IF v.v = None THEN "False" ELSE v.v)
       ELSE IF v.t = "list"
       THEN /\ Len(w.v) = Len(v.v)
            /\ \A i \in DOMAIN v.v : FalseForNone(v.v[i], w.v[i])
       ELSE /\ Cardinality(DOMAIN w.v) = Cardinality(DOMAIN v.v)
            /\ \A k \in DOMAIN v.v :
                  LET k2 == IF k = None THEN "False" ELSE k
                  IN  k2 \in DOMAIN w.v /\ FalseForNone(v.v[k], w.v[k2])

\* C28: a call of a query method of the proxy with the format 'raw' (or another
\* format that is not 'spec', 'xml' or None) raises ValueError before the
\* engine is called; every other call returns the value of the engine with
\* False in the place of every None, at every level of lists and dicts, and
\* nothing else changed, so that the returned value holds no None.
C28_NoNoneCrosses ==
    (pc = "done" /\ call.op = "CornetProxy") =>
        IF call.format \in {"spec", "xml", None}
        THEN /\ ret.status = "ok"
             /\ ~HasNone(ret.value)
             /\ FalseForNone(loc.value, ret.value)
        ELSE /\ ret.status = "ValueError"
             /\ loc = <<>>

\* a dict of the engine with a None inside a list has crossed the boundary
C28_Witness ==
    /\ pc = "done" /\ call.op = "CornetProxy" /\ ret.status = "ok"
    /\ loc.value.t = "dict"
    /\ \E k \in DOMAIN loc.value.v :
          /\ loc.value.v[k].t = "list"
          /\ \E i \in DOMAIN loc.value.v[k].v : loc.value.v[k].v[i] = Atom(None)
    /\ loc.value # ret.value

-----------------------------------------------------------------------------
(* get_related_synsets: the method of the engine and the method of the      *)
(* same name of CornetProxy                                                  *)

\* "".join(tokens): a text as the string it is
RECURSIVE Text(_)
Text(tokens) == IF tokens = <<>> THEN "" ELSE Head(tokens) \o Text(Tail(tokens))

\* a relation element of a synset as Element.get reads it: the element has
\* the attributes relation_name and target, and get("relation") is None
RelationElement(rel) ==
    [relation |-> None, relation_name |-> rel.relation_name, target |-> rel.target]

\* related_syns.setdefault(rel_repr, []).append(syn_repr)
SetDefaultAppend(related_syns, rel_repr, syn_repr) ==
    IF rel_repr \in DOMAIN related_syns
    THEN [related_syns EXCEPT ![rel_repr] = Append(@, syn_repr)]
    ELSE (rel_repr :> <<syn_repr>>) @@ related_syns

\* cornet.py lines 446-456: the loops over the synsets of the specification
\* and over their relation elements, from element j of synset i
RECURSIVE RelatedSynsLoop(_, _, _, _, _, _)
RelatedSynsLoop(from_syns, i, j, rel_name, format, related_syns) ==
    IF i > Len(from_syns) THEN Ok(related_syns)
    ELSE LET rels == parse.cdb_syn[from_syns[i]].relations IN
         IF j > Len(rels)
         THEN RelatedSynsLoop(from_syns, i + 1, 1, rel_name, format, related_syns)
         ELSE LET rel == RelationElement(rels[j]) IN
              IF ~_rel_has_name(rel, rel_name)
              THEN RelatedSynsLoop(from_syns, i, j + 1, rel_name, format, related_syns)
              ELSE IF rel.target \notin DOMAIN c_sy_id2synset
              THEN Raised("KeyError")
              ELSE LET syn_repr == FormatSynset(format, c_sy_id2synset[rel.target])
                       rel_repr == FormatRel(format, rel)
                   IN  RelatedSynsLoop(from_syns, i, j + 1, rel_name, format,
                                       SetDefaultAppend(related_syns, rel_repr, syn_repr))

\* Cornet.get_related_synsets, lines 439-458; rel_name None or "" is no name
get_related_synsets(lu_spec, rel_name, format) ==
    LET f      == _split_unit_spec(lu_spec)
        name   == IF rel_name \in {None, ""} THEN "" ELSE Upper(rel_name)
        bucket == IF f[1] \in DOMAIN form2lu THEN form2lu[f[1]] ELSE <<>>
    IN  IF format \notin HandledFormats THEN Raised("ValueError")
        ELSE RelatedSynsLoop(SynsetsLoop(bucket, 1, f[2], f[3], <<>>), 1, 1, name,
                             format, <<>>)

\* a formatted synset as a value: the list of the specifications of its units
SynsetValue(syn_repr) == List([j \in DOMAIN syn_repr |-> Atom(Text(syn_repr[j]))])

\* the dict get_related_synsets returns as a value
RelatedSynsValue(related_syns) ==
    Dict([r \in DOMAIN related_syns |->
            List([i \in DOMAIN related_syns[r] |-> SynsetValue(related_syns[r][i])])])

\* the tree get_related_lex_units returns as a value: a dict from units to
\* dicts from relations to dicts from units
RECURSIVE UnitsValue(_), RelsValue(_)
UnitsValue(lus) ==
    Dict([s \in {Text(k) : k \in DOMAIN lus} |->
            RelsValue(lus[CHOOSE k \in DOMAIN lus : Text(k) = s])])
RelsValue(rels) == Dict([r \in DOMAIN rels |-> UnitsValue(rels[r])])

\* the (lu_spec, rel_name, format) arguments of the calls
RelatedSynArgs ==
    { <<UnitSpecA, None, "spec">>, <<UnitSpecA, "has_hyponym", "spec">>,
      <<UnitSpecB, "synonym", "spec">>, <<UnitSpecX, "has_hyponym", "spec">>,
      <<UnitSpecA, None, "html">> }

\* Cornet.get_related_synsets(lu_spec, rel_name, format) on the database
\* parse_cdb has returned
GetRelatedSynsets ==
    /\ pc = "done"
    /\ call.op = "parse_cdb"
    /\ parse.at = "returned"
    /\ \E a \in RelatedSynArgs :
         /\ call' = [op |-> "get_related_synsets", lu_spec |-> a[1],
                     rel_name |-> a[2], format |-> a[3]]
         /\ LET r == get_related_synsets(a[1], a[2], a[3]) IN
            ret' = IF r.status = "ok" THEN Ok(RelatedSynsValue(r.value)) ELSE r
    /\ UNCHANGED <<db, pc, loc, bsp, tc>>

\* CornetProxy.get_related_synsets, server.py lines 370-373: the arguments
\* are passed to get_related_lex_units of the engine, with rel_name as its
\* relation specification; _split_rel_spec(None) raises TypeError at spec[-1]
ProxyGetRelatedSynsets ==
    /\ pc = "done"
    /\ call.op = "parse_cdb"
    /\ parse.at = "returned"
    /\ \E a \in RelatedSynArgs :
         LET proxy == [op |-> "CornetProxy.get_related_synsets", lu_spec |-> a[1],
                       rel_name |-> a[2], format |-> a[3]]
             f     == _safe_format(a[3])
         IN  IF f.status # "ok"
             THEN call' = proxy /\ ret' = f /\ pc' = "done"
             ELSE IF a[2] = None
             THEN call' = proxy /\ ret' = Raised("TypeError") /\ pc' = "done"
             ELSE /\ call' = [op |-> "get_related_lex_units", lu_spec |-> a[1],
                              rel_spec |-> <<a[2]>>, format |-> f.value,
                              outer |-> proxy]
                  /\ ret' = ret
                  /\ pc' = "call"
    /\ UNCHANGED <<db, loc, bsp, tc>>

\* server.py line 370: _safe_return applied to the tree the engine returned
ProxyRelatedReturn ==
    /\ pc = "done"
    /\ call.op = "get_related_lex_units"
    /\ "outer" \in DOMAIN call
    /\ call.outer.op = "CornetProxy.get_related_synsets"
    /\ call' = call.outer
    /\ ret' = IF ret.status = "ok" THEN Ok(_safe_return(UnitsValue(ret.value))) ELSE ret
    /\ UNCHANGED <<db, pc, loc, bsp, tc>>

NextRelatedSyns ==
    \/ NextBuild \/ GetRelatedSynsets \/ ProxyGetRelatedSynsets
    \/ RelatedBegin \/ RelatedSeed \/ SearchStep \/ SearchReturn \/ RelatedReturn
    \/ ProxyRelatedReturn

SpecRelatedSyns == InitBuild /\ [][NextRelatedSyns]_vars

\* equality of two values, the kinds compared first
RECURSIVE SameValue(_, _)
SameValue(v, w) ==
    /\ v.t = w.t
    /\ IF v.t = "atom" THEN v.v = w.v
       ELSE IF v.t = "list"
       THEN Len(v.v) = Len(w.v) /\ \A i \in DOMAIN v.v : SameValue(v.v[i], w.v[i])
       ELSE DOMAIN v.v = DOMAIN w.v /\ \A k \in DOMAIN v.v : SameValue(v.v[k], w.v[k])

\* the (relation name, synset) pairs of the call: a relation element of a
\* synset of a matching unit, of the given name if one is given, and the
\* synset registered under its target
RelatedPairs ==
    LET f      == _split_unit_spec(call.lu_spec)
        bucket == IF f[1] \in DOMAIN form2lu THEN form2lu[f[1]] ELSE <<>>
        from   == Range(SynsetsLoop(bucket, 1, f[2], f[3], <<>>))
    IN  { <<rel.relation_name, c_sy_id2synset[rel.target]>> :
            rel \in { r \in UNION {Range(parse.cdb_syn[s].relations) : s \in from} :
                        /\ r.target \in DOMAIN c_sy_id2synset
                        /\ call.rel_name = None \/ r.relation_name = Upper(call.rel_name) } }

\* the targets of the relation elements of the call are all registered
TargetsRegistered ==
    LET f      == _split_unit_spec(call.lu_spec)
        bucket == IF f[1] \in DOMAIN form2lu THEN form2lu[f[1]] ELSE <<>>
        from   == Range(SynsetsLoop(bucket, 1, f[2], f[3], <<>>))
    IN  \A s \in from : \A r \in Range(parse.cdb_syn[s].relations) :
            r.target \in DOMAIN c_sy_id2synset

\* a value is a mapping from the relation names of the pairs to the lists of
\* the synsets paired with the name
MapsNamesToSynsets(value, pairs) ==
    /\ value.t = "dict"
    /\ DOMAIN value.v = {p[1] : p \in pairs}
    /\ \A r \in DOMAIN value.v :
         /\ value.v[r].t = "list"
         /\ \A i \in DOMAIN value.v[r].v :
              \E p \in pairs :
                  p[1] = r /\ SameValue(value.v[r].v[i], SynsetValue(FormatSynset("spec", p[2])))
         /\ \A p \in pairs :
              p[1] = r =>
                  \E i \in DOMAIN value.v[r].v :
                      SameValue(value.v[r].v[i], SynsetValue(FormatSynset("spec", p[2])))

ProxySynsDone ==
    /\ pc = "done"
    /\ call.op = "CornetProxy.get_related_synsets"
    /\ call.format \in _allowed_formats

\* C29: CornetProxy.get_related_synsets returns what Cornet.get_related_synsets
\* returns for the same arguments, made safe for the wire, and that is a
\* mapping from relation name to the list of the synsets directly related to
\* the synsets that hold a unit matching lu_spec, all relations being
\* considered when no rel_name is given.
C29_ProxyReturnsRelatedSynsets ==
    ProxySynsDone =>
        LET engine == get_related_synsets(call.lu_spec, call.rel_name, call.format) IN
        /\ ret.status = engine.status
        /\ ret.status = "ok" =>
               SameValue(ret.value, _safe_return(RelatedSynsValue(engine.value)))
        /\ TargetsRegistered =>
               ret.status = "ok" /\ MapsNamesToSynsets(ret.value, RelatedPairs)

\* the proxy has returned for a specification with related synsets
C29_Witness == ProxySynsDone /\ RelatedPairs # {}

-----------------------------------------------------------------------------
(* cornetto-add-sub-counts.py: TweakedCornet.add_sub_counts                  *)

\* the count attributes of the forms of a file cornetto-add-counts.py wrote:
\* one count per word form, the same on all its senses; <<>> is no attribute
FormCountLists ==
    [{LexUnitRecords[i].form : i \in DOMAIN LexUnitRecords} -> CountAttribs]

\* the cdb_lu elements of such a file: no unit has a subcount yet
UncountedRecords(counts) ==
    [i \in DOMAIN LexUnitRecords |->
        [c_lu_id |-> LexUnitRecords[i].c_lu_id, has_form |-> TRUE,
         form |-> LexUnitRecords[i].form, cat |-> LexUnitRecords[i].cat,
         sense |-> LexUnitRecords[i].sense, count |-> counts[LexUnitRecords[i].form],
         subcount |-> <<>>, c_sy_id |-> <<>>]]

\* the while loop of _transitive_closure from a queue; the keys and distances
\* it returns do not depend on the order of the out-edges, of which one is taken
RECURSIVE ClosureWhile(_, _, _, _, _)
ClosureWhile(queue, lus, rel_name, distance, successors) ==
    IF queue = <<>> THEN successors
    ELSE LET es == CHOOSE x \in out_edges_iter(graph, queue, 1) : TRUE
             r  == ClosureLoop(es, 1, rel_name, lus, distance, successors, <<>>)
         IN  ClosureWhile(r.next_queue, lus, rel_name, distance + 1, r.successors)

\* lines 139-156: the subcount of a subsumer after the count is added; a
\* subsumer with neither subcount nor count is left as it is
AddToSuccessor(succ_lu, count) ==
    IF succ_lu.subcount # <<>>
    THEN [succ_lu EXCEPT !.subcount = <<succ_lu.subcount[1] + count>>]
    ELSE IF succ_lu.count # <<>>
    THEN [succ_lu EXCEPT !.subcount = <<succ_lu.count[1] + count>>]
    ELSE succ_lu

\* lines 124-156: the body of the loop over the senses of a form for unit lu;
\* visited is not extended
AddSubCount(lu2rec, lu, visited) ==
    IF ~lu2rec[lu].has_form \/ lu2rec[lu].count = <<>> THEN [recs |-> lu2rec, visited |-> visited]
    ELSE LET count      == lu2rec[lu].count[1]
             successors == DOMAIN ClosureWhile(<<lu>>, {lu}, "HAS_HYPERONYM", 0, <<>>)
         IN  [recs |-> [u \in DOMAIN lu2rec |->
                          IF u = lu
                          THEN (IF lu2rec[u].subcount = <<>>
                                THEN [lu2rec[u] EXCEPT !.subcount = <<count>>]
                                ELSE lu2rec[u])
                          ELSE IF u \in successors /\ u \notin visited
                          THEN AddToSuccessor(lu2rec[u], count)
                          ELSE lu2rec[u]],
              visited |-> visited]

\* the database TweakedCornet.open has built and a call of add_sub_counts;
\* self._form2lu.values() yields the forms in the order of the dict
InitSubCounts ==
    /\ \E counts \in FormCountLists :
         LET st == ParseLexUnits(UncountedRecords(counts), FALSE) IN
         /\ form2lu = st.form2lu
         /\ c_lu_id2lu = st.c_lu_id2lu
    /\ graph \in HyperonymGraphs
    /\ c_sy_id2synset = <<>>
    /\ _max_depth = _default_max_depth
    /\ parse = [at |-> "returned"]
    /\ call = [op |-> "add_sub_counts"]
    /\ pc = "call"
    /\ loc = <<>>
    /\ bsp = NoBsp
    /\ tc = NoTc
    /\ ret = Running

\* line 120: the loop over the forms starts
SubCountsBegin ==
    /\ pc = "call"
    /\ call.op = "add_sub_counts"
    /\ \E forms \in Perms(DOMAIN form2lu) :
         loc' = [forms |-> forms, f |-> 1, i |-> 1, visited |-> {}]
    /\ pc' = "form"
    /\ UNCHANGED <<form2lu, graph, c_lu_id2lu, c_sy_id2synset, _max_depth, parse,
                   call, bsp, tc, ret>>

\* lines 120-121: the next form; visited = dict.fromkeys(lus)
SubCountsForm ==
    /\ pc = "form"
    /\ loc.f <= Len(loc.forms)
    /\ loc' = [loc EXCEPT !.i = 1, !.visited = Range(form2lu[loc.forms[loc.f]])]
    /\ pc' = "lu"
    /\ UNCHANGED <<form2lu, graph, c_lu_id2lu, c_sy_id2synset, _max_depth, parse,
                   call, bsp, tc, ret>>

\* lines 123-156: the next sense of the form
SubCountsLu ==
    /\ pc = "lu"
    /\ LET lus == form2lu[loc.forms[loc.f]] IN
       IF loc.i > Len(lus)
       THEN /\ loc' = [loc EXCEPT !.f = @ + 1]
            /\ pc' = "form"
            /\ c_lu_id2lu' = c_lu_id2lu
       ELSE LET r == AddSubCount(c_lu_id2lu, lus[loc.i], loc.visited) IN
            /\ c_lu_id2lu' = r.recs
            /\ loc' = [loc EXCEPT !.i = @ + 1, !.visited = r.visited]
            /\ pc' = pc
    /\ UNCHANGED <<form2lu, graph, c_sy_id2synset, _max_depth, parse, call, bsp, tc, ret>>

\* the loop over the forms has ended
SubCountsReturn ==
    /\ pc = "form"
    /\ loc.f > Len(loc.forms)
    /\ ret' = Ok(<<>>)
    /\ pc' = "done"
    /\ UNCHANGED <<db, call, loc, bsp, tc>>

NextSubCounts == SubCountsBegin \/ SubCountsForm \/ SubCountsLu \/ SubCountsReturn

SpecSubCounts == InitSubCounts /\ [][NextSubCounts]_vars

SubCountsDone == pc = "done" /\ call.op = "add_sub_counts"

\* the count of a form: that of its senses
FormCount(form) == c_lu_id2lu[form2lu[form][1]].count

\* the other forms with a count of which unit u subsumes a sense
SubsumedForms(u) ==
    { form \in DOMAIN form2lu :
        /\ form # c_lu_id2lu[u].form
        /\ FormCount(form) # <<>>
        /\ \E s \in Range(form2lu[form]) : u \in ReachedFrom({s}, "HAS_HYPERONYM") }

RECURSIVE SumOfCounts(_)
SumOfCounts(forms) ==
    IF forms = {} THEN 0
    ELSE LET form == CHOOSE x \in forms : TRUE
         IN  FormCount(form)[1] + SumOfCounts(forms \ {form})

\* C30: add_sub_counts adds the count of a word form at most once to the
\* subcount of a subsuming unit: when add_sub_counts has returned, the subcount
\* of a unit is at most its own count plus the counts of the other forms of
\* which it subsumes a sense, each form counted once however many of its
\* senses the unit subsumes.
C30_FormAddedOnce ==
    SubCountsDone =>
        \A u \in Units :
            (c_lu_id2lu[u].count # <<>> /\ c_lu_id2lu[u].subcount # <<>>) =>
                c_lu_id2lu[u].subcount[1]
                    <= c_lu_id2lu[u].count[1] + SumOfCounts(SubsumedForms(u))

=============================================================================
